---------------------------- MODULE Spec2Model ----------------------------
(***************************************************************************)
(* State-machine model of the audio-recognition pipeline:                  *)
(*   capture callback -> audio_queue -> AudioProcessing.processing_thread  *)
(*   -> processing_queue -> SpeechRecognition.recognition_thread           *)
(*   -> translation_queue -> Translation.translation_thread,               *)
(* and of AudioRecognitionSystem.run, which starts and joins the workers.  *)
(*                                                                         *)
(* Time is counted in ticks (TicksPerSecond ticks to a second); durations  *)
(* of the configuration are given in ticks, sample counts are computed as  *)
(* the code computes them, int(seconds * sample_rate).                     *)
(***************************************************************************)
EXTENDS Integers, Sequences, FiniteSets, TLC

VARIABLES
    cfg,                  \* configuration chosen at construction (never changes)
    now,                  \* time.time(), in ticks since construction
    is_running,           \* threading.Event shared by all workers
    main_pc,              \* position of AudioRecognitionSystem.run
    joined,               \* workers run() has finished joining (in order)
    cap_pc,               \* capture_thread position
    pa_calls,             \* history: the calls capture_thread made on PyAudio objects
    audio_queue,          \* queue.Queue(): frames from the PortAudio callback
    seg_pc,               \* processing_thread position
    buffer,               \* deque(maxlen=max_buffer_size), one tag per sample
    silence_start,        \* None (NoTime) or the time silence began
    last_voice_activity,
    buffer_start_time,
    processing_queue,     \* queue.Queue(): completed segments
    seg_last,             \* history: what the last processing_thread iteration did
    rec_pc,               \* recognition_thread position
    last_text,
    last_text_time,
    next_pair,            \* number of pair_ids (uuid4) issued so far
    log_buffer,           \* SpeechRecognition._log_buffer
    log_file,             \* lines written to the recognition log file
    rec_last,             \* history: what the last recognition_thread iteration did
    translation_queue,    \* queue.Queue(): {text, pair_id} items
    tr_pc,                \* translation_thread position
    texts_to_translate,   \* batch of the current iteration
    batch_idx,            \* index of the next item of processed_items
    failed_translations,  \* Failure Queue
    consecutive_errors,
    handles,              \* live model handles (llm_model / api_client objects)
    load_failures,        \* history: load_model calls that raised
    invalid_run,          \* history: invalid results since the last valid one,
                          \* counted up to MaxRun
    forced_reloads,       \* history: forced reloads since the last valid result,
                          \* counted up to MaxRun
    last_reload_time,
    last_load_time,       \* history: time of the latest load_model call that returned
    context_window,       \* deque(maxlen=context_window_size)
    delivered,            \* history: translations forwarded downstream
    tr_last,              \* history: what the last translation_thread step did
    translated_texts,     \* log lines of the current batch, not yet written
    translated_log,       \* history: the items written to the translation log file
    web_sent,             \* history: the items given to web_ui.send_translated_text
    speech_queue,         \* TextToSpeech.speech_queue
    tts_pc                \* TextToSpeech._speech_worker position

segVars  == <<buffer, silence_start, last_voice_activity, buffer_start_time, seg_last>>
recVars  == <<last_text, last_text_time, next_pair, log_buffer, log_file, rec_last>>
trVars   == <<texts_to_translate, batch_idx, failed_translations, consecutive_errors,
              handles, load_failures, invalid_run, forced_reloads,
              last_reload_time, last_load_time, context_window, delivered, tr_last>>
outVars  == <<translated_texts, translated_log, web_sent, speech_queue, tts_pc>>
pcVars   == <<main_pc, joined, cap_pc, seg_pc, rec_pc, tr_pc>>
vars     == <<cfg, pa_calls, outVars, now, is_running, audio_queue, processing_queue, translation_queue,
              pcVars, segVars, recVars, trVars>>

-----------------------------------------------------------------------------
(* Bounds of the model *)

MaxTime  == 5      \* the clock is followed for MaxTime ticks
MaxChunk == 2      \* frames carry 1..MaxChunk samples
MaxQueue == 1      \* frames the model lets wait in audio_queue
MaxSegQueue == 1   \* segments waiting in processing_queue when an iteration of
                   \* processing_thread starts

(* Units *)
TicksPerSecond == 2
SampleRate     == 3      \* samples per second (config.audio.sample_rate, scaled)

NoTime == -1             \* Python None for a timestamp

-----------------------------------------------------------------------------
(* AudioProcessing.__init__ : buffer limits *)

\* int(duration * sample_rate), duration given in ticks
DurationToSamples(ticks) == (ticks * SampleRate) \div TicksPerSecond

min_buffer_size == DurationToSamples(cfg.min_buffer_duration)
max_buffer_size == DurationToSamples(cfg.max_buffer_duration)

\* dynamic_buffer enabled: the five durations come from config.yaml;
\* otherwise min = max = buffer_duration and medium = long = silence_duration
SegConfigs ==
    { [min_buffer_duration |-> 2, max_buffer_duration |-> 3,
       medium_pause_duration |-> 1, long_pause_duration |-> 2],
      [min_buffer_duration |-> 2, max_buffer_duration |-> 3,
       medium_pause_duration |-> 2, long_pause_duration |-> 1],
      [min_buffer_duration |-> 2, max_buffer_duration |-> 2,
       medium_pause_duration |-> 1, long_pause_duration |-> 1] }

-----------------------------------------------------------------------------
(* Frames.  A frame is the block of samples of one PortAudio callback; the  *)
(* model keeps its length and the verdict has_voice_activity gives for it.  *)

Frame(n, voiced) == [n |-> n, voiced |-> voiced]
AllFrames == { Frame(n, v) : n \in 1..MaxChunk, v \in BOOLEAN }

\* the samples of a frame, each tagged with the frame's verdict
Samples(data) == [i \in 1..data.n |-> IF data.voiced THEN "v" ELSE "s"]

\* variant: a deque without maxlen
DequeExtend_NoMaxlen(buf, data, maxlen) == buf \o Samples(data)

\* deque.extend on a deque with maxlen: the oldest samples fall off the left
DequeExtend(buf, data, maxlen) ==
    LET s == buf \o Samples(data)
    IN  IF Len(s) > maxlen THEN SubSeq(s, Len(s) - maxlen + 1, Len(s)) ELSE s

\* has_voice_activity(data)
has_voice_activity(data) == data.voiced

-----------------------------------------------------------------------------
(* AudioProcessing.has_voice_activity on the samples of a frame.  Normalised *)
(* values and thresholds are counted in units of 1 / Quantum.               *)

Quantum  == 2        \* a normalised value of 1.0 is Quantum units
MaxFrame == 3        \* samples of a frame

Formats == {"paInt8", "paInt16", "paInt32", "paFloat32"}

\* the raw value of one unit.  audio_normalization.py lines 56-64 divide an
\* integer sample by 128, 32768 or 2147483648, so one unit is that factor
\* over Quantum; a float frame holds the units themselves
RawUnit(format) ==
    CASE format = "paInt8"    -> 128 \div Quantum
      [] format = "paInt16"   -> 32768 \div Quantum
      [] format = "paInt32"   -> (1073741824 \div Quantum) * 2
      [] format = "paFloat32" -> 1

\* the sample values of the model: the whole range of an integer format
\* (-1.0 up to, not including, 1.0), and floats from -1.5 to 1.5
SampleValues(format) ==
    IF format = "paFloat32" THEN -(Quantum + 1)..(Quantum + 1)
    ELSE { k * RawUnit(format) : k \in -Quantum..(Quantum - 1) }

RECURSIVE FramesUpTo(_, _)
FramesUpTo(n, format) ==
    IF n = 0 THEN {<<>>}
    ELSE LET shorter == FramesUpTo(n - 1, format)
         IN  shorter \cup { Append(f, x) : f \in { g \in shorter : Len(g) = n - 1 },
                                           x \in SampleValues(format) }

\* frames as PortAudio delivers them: at least one sample
SampleFrames(format) == FramesUpTo(MaxFrame, format) \ {<<>>}

\* audio_normalization.py lines 56-64: floats are clipped to [-1.0, 1.0],
\* integers are divided by the factor of their format (result in units)
normalize_audio(audio_data, format) ==
    [i \in 1..Len(audio_data) |->
        IF format = "paFloat32"
        THEN (IF audio_data[i] > Quantum THEN Quantum
              ELSE IF audio_data[i] < -Quantum THEN -Quantum ELSE audio_data[i])
        ELSE audio_data[i] \div RawUnit(format)]

sign(x) == IF x > 0 THEN 1 ELSE IF x < 0 THEN -1 ELSE 0
Abs(x)  == IF x < 0 THEN -x ELSE x

RECURSIVE SumSquares(_)
SumSquares(xs) == IF xs = <<>> THEN 0 ELSE Head(xs) * Head(xs) + SumSquares(Tail(xs))

\* np.sum(np.abs(np.diff(np.sign(x))))
RECURSIVE SignChanges(_)
SignChanges(xs) ==
    IF Len(xs) < 2 THEN 0
    ELSE Abs(sign(xs[2]) - sign(xs[1])) + SignChanges(Tail(xs))

\* lines 179-180: rms = sqrt(mean(x ** 2)); rms > voice_activity_threshold.
\* rms is not negative, so it exceeds every negative threshold, and it
\* exceeds a threshold t >= 0 exactly when mean(x ** 2) > t ** 2
HasEnergy(normalized_data, threshold) ==
    threshold < 0 \/ SumSquares(normalized_data) > threshold * threshold * Len(normalized_data)

\* lines 183-184: zero_crossings = sum(|diff(sign(x))|) / (2 * len(x));
\* zero_crossings > zero_crossing_rate_threshold
HasSpeechCharacteristics(normalized_data, threshold) ==
    SignChanges(normalized_data) * Quantum > threshold * 2 * Len(normalized_data)

\* lines 176-187, on the samples of the frame
VoiceActivity(audio_data, format, voice_activity_threshold, zero_crossing_rate_threshold) ==
    LET normalized_data == normalize_audio(audio_data, format)
    IN  /\ HasEnergy(normalized_data, voice_activity_threshold)
        /\ HasSpeechCharacteristics(normalized_data, zero_crossing_rate_threshold)

-----------------------------------------------------------------------------
(* AudioProcessing.processing_thread *)

SegIdle == [kind |-> "idle", reason |-> "none", open |-> FALSE, cut |-> 0,
            emitted |-> FALSE]

\* lines 102-123: the segmentation decision after a frame, at time t, for a
\* buffer of buflen samples started at bst, with silence open since ss

\* variant: with no silence window open the pause is counted from time 0
pause_duration_SinceStart(ss, t) == IF ss # NoTime THEN t - ss ELSE t

\* lines 102-105: pause_duration is 0 unless a silence window is open
pause_duration(ss, t) == IF ss # NoTime THEN t - ss ELSE 0

\* variant: the long pause is tested before the medium pause
SegmentReason_LongFirst(buflen, bst, ss, t) ==
    IF t - bst >= cfg.max_buffer_duration THEN "max_duration"
    ELSE IF buflen >= min_buffer_size
         THEN IF pause_duration(ss, t) >= cfg.long_pause_duration THEN "long_pause"
              ELSE IF pause_duration(ss, t) >= cfg.medium_pause_duration THEN "medium_pause"
              ELSE "none"
         ELSE "none"

\* variant: the forced cut comes only after max_buffer_duration is exceeded
SegmentReason_StrictMax(buflen, bst, ss, t) ==
    IF t - bst > cfg.max_buffer_duration THEN "max_duration"
    ELSE IF buflen >= min_buffer_size
         THEN IF pause_duration(ss, t) >= cfg.medium_pause_duration THEN "medium_pause"
              ELSE IF pause_duration(ss, t) >= cfg.long_pause_duration THEN "long_pause"
              ELSE "none"
         ELSE "none"

SegmentReason(buflen, bst, ss, t) ==
    IF t - bst >= cfg.max_buffer_duration THEN "max_duration"
    ELSE IF buflen >= min_buffer_size
         THEN IF pause_duration(ss, t) >= cfg.medium_pause_duration THEN "medium_pause"
              ELSE IF pause_duration(ss, t) >= cfg.long_pause_duration THEN "long_pause"
              ELSE "none"
         ELSE "none"

\* variant: nothing is counted as pause
silence_samples_None(ss, t) == 0

\* line 129: int((current_time - silence_start) * sample_rate)
silence_samples(ss, t) == DurationToSamples(t - ss)

\* variant: the full buffer is the fallback whenever the trimmed slice is
\* shorter than min_buffer_size
SegmentCandidate_FallbackBelowMin(buf, ss, t) ==
    IF ss # NoTime
    THEN LET valid_samples == Len(buf) - silence_samples(ss, t)
         IN  IF valid_samples >= min_buffer_size THEN SubSeq(buf, 1, valid_samples) ELSE buf
    ELSE buf

\* lines 127-136: the audio_data cut out of the buffer on a decision
SegmentCandidate(buf, ss, t) ==
    IF ss # NoTime
    THEN LET valid_samples == Len(buf) - silence_samples(ss, t)
         IN  IF valid_samples > 0 THEN SubSeq(buf, 1, valid_samples) ELSE buf
    ELSE buf

\* variant: the queue hands out the newest item first (queue.LifoQueue)
QueuePut_Lifo(q, item) == <<item>> \o q

\* queue.Queue.put on the FIFO queues made in main(): the item goes to the tail
QueuePut(q, item) == Append(q, item)

\* variant: any non-empty candidate is queued
EmitsCandidate_NonEmpty(audio_data) == Len(audio_data) > 0

\* line 139: only a candidate of sufficient length is queued
EmitsCandidate(audio_data) == Len(audio_data) >= min_buffer_size

\* line 85: while is_running.is_set()
SegLoopCheck ==
    /\ seg_pc = "check"
    /\ is_running => Len(processing_queue) < MaxSegQueue
    /\ seg_pc' = IF is_running THEN "body" ELSE "done"
    /\ seg_last' = SegIdle
    /\ UNCHANGED <<cfg, pa_calls, outVars, now, is_running, audio_queue, processing_queue, translation_queue,
                   main_pc, joined, cap_pc, rec_pc, tr_pc,
                   buffer, silence_start, last_voice_activity, buffer_start_time,
                   recVars, trVars>>

\* lines 87-146: a frame was read from audio_queue within the 0.2 s timeout
ProcessFrame ==
    /\ seg_pc = "body"
    /\ audio_queue # <<>>
    /\ LET data == Head(audio_queue)
           buf  == DequeExtend(buffer, data, max_buffer_size)
           current_time == now
           ss   == IF has_voice_activity(data) THEN NoTime
                   ELSE IF silence_start = NoTime THEN current_time
                   ELSE silence_start
           reason == SegmentReason(Len(buf), buffer_start_time, ss, current_time)
           audio_data == SegmentCandidate(buf, ss, current_time)
       IN  /\ audio_queue' = Tail(audio_queue)
           /\ last_voice_activity' = IF has_voice_activity(data) THEN current_time
                                     ELSE last_voice_activity
           /\ IF reason # "none"
              THEN /\ processing_queue' = IF EmitsCandidate(audio_data)
                                          THEN QueuePut(processing_queue, audio_data)
                                          ELSE processing_queue
                   /\ buffer' = <<>>
                   /\ buffer_start_time' = current_time
                   /\ silence_start' = NoTime
                   /\ seg_last' = [kind |-> "frame", reason |-> reason,
                                   open |-> ss # NoTime,
                                   cut |-> Len(buf) - Len(audio_data),
                                   emitted |-> EmitsCandidate(audio_data)]
              ELSE /\ buffer' = buf
                   /\ silence_start' = ss
                   /\ seg_last' = [kind |-> "frame", reason |-> "none",
                                   open |-> ss # NoTime, cut |-> 0, emitted |-> FALSE]
                   /\ UNCHANGED <<processing_queue, buffer_start_time>>
    /\ seg_pc' = "check"
    /\ UNCHANGED <<cfg, pa_calls, outVars, now, is_running, translation_queue,
                   main_pc, joined, cap_pc, rec_pc, tr_pc, recVars, trVars>>

\* variant: the length of the buffer is not tested
TimeoutFlush_AnyLength(buflen, lva, t) == t - lva >= cfg.long_pause_duration

\* lines 150-152: the two tests of the timeout path
TimeoutFlush(buflen, lva, t) ==
    /\ buflen >= min_buffer_size
    /\ t - lva >= cfg.long_pause_duration

\* lines 148-158: queue.Empty after the 0.2 s timeout
ProcessTimeout ==
    /\ seg_pc = "body"
    /\ audio_queue = <<>>
    /\ LET current_time == now
           flush == TimeoutFlush(Len(buffer), last_voice_activity, current_time)
       IN  IF flush
           THEN /\ processing_queue' = IF Len(buffer) > 0
                                       THEN QueuePut(processing_queue, buffer)
                                       ELSE processing_queue
                /\ buffer' = <<>>
                /\ buffer_start_time' = current_time
                /\ seg_last' = [kind |-> "timeout", reason |-> "timeout",
                                open |-> silence_start # NoTime, cut |-> 0,
                                emitted |-> Len(buffer) > 0]
           ELSE /\ seg_last' = [kind |-> "timeout", reason |-> "none",
                                open |-> silence_start # NoTime, cut |-> 0,
                                emitted |-> FALSE]
                /\ UNCHANGED <<processing_queue, buffer, buffer_start_time>>
    /\ seg_pc' = "check"
    /\ UNCHANGED <<cfg, pa_calls, outVars, now, is_running, audio_queue, translation_queue,
                   main_pc, joined, cap_pc, rec_pc, tr_pc,
                   silence_start, last_voice_activity, recVars, trVars>>

\* the calls of an iteration that can raise: has_voice_activity (line 94,
\* through normalize_audio) and preprocess_audio (lines 140 and 155: noise
\* reduction and band-pass filter)
RaisePoints == {"vad", "preprocess"}

\* variant: the handler starts over with an empty buffer
BufferOnError_Cleared(buf) == <<>>

\* lines 159-160: the handler prints the error and touches nothing, so the
\* deque is what line 88 made of it
BufferOnError(buf) == buf

\* lines 87-146 when a call raises while the frame is handled: the frame is
\* already in the deque (line 88); a raise in has_voice_activity comes before
\* the voice bookkeeping of lines 96-100, a raise in preprocess_audio comes
\* after it and before the put and the clear of lines 141-146.  Line 159
\* catches the exception and the loop goes on.
ProcessFrameRaises(at) ==
    /\ seg_pc = "body"
    /\ audio_queue # <<>>
    /\ LET data == Head(audio_queue)
           buf  == DequeExtend(buffer, data, max_buffer_size)
           current_time == now
           ss   == IF has_voice_activity(data) THEN NoTime
                   ELSE IF silence_start = NoTime THEN current_time
                   ELSE silence_start
           reason == SegmentReason(Len(buf), buffer_start_time, ss, current_time)
           audio_data == SegmentCandidate(buf, ss, current_time)
       IN  /\ audio_queue' = Tail(audio_queue)
           /\ buffer' = BufferOnError(buf)
           /\ IF at = "vad"
              THEN /\ seg_last' = [kind |-> "raise", reason |-> "none", open |-> FALSE,
                                   cut |-> 0, emitted |-> FALSE, at |-> at]
                   /\ UNCHANGED <<silence_start, last_voice_activity>>
              ELSE /\ reason # "none"
                   /\ EmitsCandidate(audio_data)
                   /\ last_voice_activity' = IF has_voice_activity(data) THEN current_time
                                             ELSE last_voice_activity
                   /\ silence_start' = ss
                   /\ seg_last' = [kind |-> "raise", reason |-> reason, open |-> ss # NoTime,
                                   cut |-> 0, emitted |-> FALSE, at |-> at]
    /\ seg_pc' = "check"
    /\ UNCHANGED <<cfg, pa_calls, outVars, now, is_running, processing_queue, translation_queue,
                   main_pc, joined, cap_pc, rec_pc, tr_pc, buffer_start_time,
                   recVars, trVars>>

\* lines 148-158 when preprocess_audio raises at line 155: the call is inside
\* the `except queue.Empty` handler, where the `except Exception` clause of
\* the same try statement does not apply; the exception leaves the loop
ProcessTimeoutRaises ==
    /\ seg_pc = "body"
    /\ audio_queue = <<>>
    /\ Len(buffer) >= min_buffer_size
    /\ now - last_voice_activity >= cfg.long_pause_duration
    /\ Len(buffer) > 0
    /\ seg_pc' = "crashed"
    /\ seg_last' = [kind |-> "raise", reason |-> "timeout", open |-> silence_start # NoTime,
                    cut |-> 0, emitted |-> FALSE, at |-> "preprocess"]
    /\ UNCHANGED <<cfg, pa_calls, outVars, now, is_running, audio_queue, processing_queue, translation_queue,
                   main_pc, joined, cap_pc, rec_pc, tr_pc,
                   buffer, silence_start, last_voice_activity, buffer_start_time,
                   recVars, trVars>>

\* the thresholds of the model, in units: config_manager.py lines 413-415
\* take them from the configuration file as they are
Thresholds == -1..Quantum

\* has_voice_activity applied to a frame (line 94) under a configuration
ClassifyFrame(audio_data, format, vat, zcrt) ==
    /\ seg_last.kind = "idle"
    /\ seg_last' = [kind |-> "classified", reason |-> "none", open |-> FALSE, cut |-> 0,
                    emitted |-> FALSE, audio_data |-> audio_data, format |-> format,
                    voice_activity_threshold |-> vat,
                    zero_crossing_rate_threshold |-> zcrt,
                    has_voice |-> VoiceActivity(audio_data, format, vat, zcrt)]
    /\ UNCHANGED <<cfg, pa_calls, outVars, now, is_running, audio_queue, processing_queue, translation_queue,
                   pcVars, buffer, silence_start, last_voice_activity, buffer_start_time,
                   recVars, trVars>>

-----------------------------------------------------------------------------
(* Environment: the clock and the PortAudio callback *)

\* time passes (time.time() grows); the clock is followed up to limit ticks
\* after the workers were started
Tick(limit) ==
    /\ main_pc # "init"
    /\ now < limit
    /\ now' = now + 1
    /\ UNCHANGED <<cfg, pa_calls, outVars, is_running, audio_queue, processing_queue, translation_queue,
                   pcVars, segVars, recVars, trVars>>

\* AudioCapture.audio_callback: called by PortAudio while the stream is
\* active; queue.Queue() has no maxsize, so put() never blocks or drops.
\* bound limits the frames the model lets wait in the queue.
audio_callback(data, bound) ==
    /\ cap_pc \in {"check", "sleep"}
    /\ Len(audio_queue) < bound
    /\ audio_queue' = QueuePut(audio_queue, data)
    /\ UNCHANGED <<cfg, pa_calls, outVars, now, is_running, processing_queue, translation_queue,
                   pcVars, segVars, recVars, trVars>>

-----------------------------------------------------------------------------
(* AudioCapture.capture_thread *)

\* a call on a PyAudio object and whether it raised
Call(name, raised) == [call |-> name, raised |-> raised]

\* lines 68-82: the calls made until raises_at raises ("none": none does)
StartCalls(raises_at) ==
    CASE raises_at = "PyAudio"      -> <<Call("PyAudio", TRUE)>>
      [] raises_at = "open"         -> <<Call("PyAudio", FALSE), Call("open", TRUE)>>
      [] raises_at = "start_stream" -> <<Call("PyAudio", FALSE), Call("open", FALSE),
                                         Call("start_stream", TRUE)>>
      [] raises_at = "none"         -> <<Call("PyAudio", FALSE), Call("open", FALSE),
                                         Call("start_stream", FALSE)>>

\* `audio` / `stream` is not None: the call that makes it returned
Made(calls, name) == \E i \in 1..Len(calls) : calls[i] = Call(name, FALSE)

\* what the calls of the finally block do: is_active returns "true" or
\* "false" or raises; stop_stream, close and terminate return or raise
CleanupOk == [is_active |-> "true", stop_stream |-> FALSE, close |-> FALSE,
              terminate |-> FALSE]

CleanupOutcomes ==
    [is_active : {"true", "false", "raise"}, stop_stream : BOOLEAN, close : BOOLEAN,
     terminate : BOOLEAN]

\* lines 91-100: is_active, stop_stream and close share one try block, so a
\* raise in one of them skips the calls after it
StreamCleanup(outcome) ==
    IF outcome.is_active = "raise" THEN <<Call("is_active", TRUE)>>
    ELSE <<Call("is_active", FALSE)>>
         \o (IF outcome.is_active = "true"
             THEN <<Call("stop_stream", outcome.stop_stream)>> ELSE <<>>)
         \o (IF outcome.is_active = "true" /\ outcome.stop_stream
             THEN <<>> ELSE <<Call("close", outcome.close)>>)

\* lines 89-108: the finally block after the calls made so far
Finally(calls, outcome) ==
    calls \o (IF Made(calls, "open") THEN StreamCleanup(outcome) ELSE <<>>)
          \o (IF Made(calls, "PyAudio") THEN <<Call("terminate", outcome.terminate)>>
              ELSE <<>>)

\* a stream whose start_stream did not return is not active
CleanupPossible(calls, outcome) ==
    /\ outcome \in CleanupOutcomes
    /\ ~Made(calls, "start_stream") => outcome.is_active # "true"

\* lines 64-108 up to the loop: PyAudio(), audio.open(...), start_stream();
\* an exception goes to the except block (lines 87-88) and to the finally
\* block, and the thread ends
CaptureStart(raises_at, outcome) ==
    /\ cap_pc = "start"
    /\ IF raises_at = "none"
       THEN /\ cap_pc' = "check"
            /\ pa_calls' = StartCalls(raises_at)
       ELSE /\ CleanupPossible(StartCalls(raises_at), outcome)
            /\ cap_pc' = "done"
            /\ pa_calls' = Finally(StartCalls(raises_at), outcome)
    /\ UNCHANGED <<cfg, outVars, now, is_running, audio_queue, processing_queue,
                   translation_queue, main_pc, joined, seg_pc, rec_pc, tr_pc, segVars,
                   recVars, trVars>>

\* the same with a cleanup in which no call raises
CaptureOpen(ok) == CaptureStart(IF ok THEN "none" ELSE "open", [CleanupOk EXCEPT !.is_active = "false"])

\* line 84: while is_running.is_set(); on exit the finally block stops and
\* closes the stream and terminates PyAudio
CaptureLoopExit(outcome) ==
    /\ cap_pc = "check"
    /\ IF is_running
       THEN /\ cap_pc' = "sleep"
            /\ UNCHANGED pa_calls
       ELSE /\ CleanupPossible(pa_calls, outcome)
            /\ cap_pc' = "done"
            /\ pa_calls' = Finally(pa_calls, outcome)
    /\ UNCHANGED <<cfg, outVars, now, is_running, audio_queue, processing_queue,
                   translation_queue, main_pc, joined, seg_pc, rec_pc, tr_pc, segVars,
                   recVars, trVars>>

\* the same with a cleanup in which no call raises
CaptureLoopCheck == CaptureLoopExit(CleanupOk)

\* line 85: time.sleep(0.1)
CaptureSleep ==
    /\ cap_pc = "sleep"
    /\ cap_pc' = "check"
    /\ UNCHANGED <<cfg, pa_calls, outVars, now, is_running, audio_queue, processing_queue, translation_queue,
                   main_pc, joined, seg_pc, rec_pc, tr_pc, segVars, recVars, trVars>>

-----------------------------------------------------------------------------
(* AudioRecognitionSystem.run *)

Workers == <<"capture", "processing", "recognition", "translation">>

WorkerPc(w) ==
    CASE w = "capture"     -> cap_pc
      [] w = "processing"  -> seg_pc
      [] w = "recognition" -> rec_pc
      [] w = "translation" -> tr_pc

WorkerEnded(w) == WorkerPc(w) \in {"done", "crashed"}

\* lines 68-82: the four threads are created and started; processing_thread
\* initialises its timestamps when it starts (lines 78-81)
RunStart ==
    /\ main_pc = "init"
    /\ main_pc' = "waiting"
    /\ cap_pc' = "start"
    /\ seg_pc' = "check"
    /\ rec_pc' = "check"
    /\ tr_pc'  = "check"
    /\ last_voice_activity' = now
    /\ buffer_start_time' = now
    /\ UNCHANGED <<cfg, pa_calls, outVars, now, is_running, audio_queue, processing_queue, translation_queue,
                   joined, buffer, silence_start, seg_last, recVars, trVars>>

\* lines 86-94: Ctrl-C during the wait loop clears the flag and leaves the loop
KeyboardInterrupt ==
    /\ main_pc = "waiting"
    /\ is_running' = FALSE
    /\ main_pc' = "joining"
    /\ UNCHANGED <<cfg, pa_calls, outVars, now, audio_queue, processing_queue, translation_queue,
                   joined, cap_pc, seg_pc, rec_pc, tr_pc, segVars, recVars, trVars>>

\* web_server.py: the stop handler clears the flag of the running system;
\* run() itself stays in its wait loop
ExternalStop ==
    /\ main_pc = "waiting"
    /\ is_running
    /\ is_running' = FALSE
    /\ UNCHANGED <<cfg, pa_calls, outVars, now, audio_queue, processing_queue, translation_queue,
                   pcVars, segVars, recVars, trVars>>

\* variant: thread.join() with no timeout returns only when the thread has ended
JoinNext_NoTimeout(timedOut) ==
    /\ main_pc = "joining"
    /\ joined < Len(Workers)
    /\ WorkerEnded(Workers[joined + 1])
    /\ joined' = joined + 1
    /\ UNCHANGED <<cfg, pa_calls, outVars, now, is_running, audio_queue, processing_queue, translation_queue,
                   main_pc, cap_pc, seg_pc, rec_pc, tr_pc, segVars, recVars, trVars>>

\* lines 98-99: thread.join(timeout=3.0) returns when the thread has ended
\* (timedOut = FALSE) or when the 3 seconds are over, whatever the thread does
JoinNext(timedOut) ==
    /\ main_pc = "joining"
    /\ joined < Len(Workers)
    /\ timedOut \/ WorkerEnded(Workers[joined + 1])
    /\ joined' = joined + 1
    /\ UNCHANGED <<cfg, pa_calls, outVars, now, is_running, audio_queue, processing_queue, translation_queue,
                   main_pc, cap_pc, seg_pc, rec_pc, tr_pc, segVars, recVars, trVars>>

\* line 101: run() returns
RunReturn ==
    /\ main_pc = "joining"
    /\ joined = Len(Workers)
    /\ main_pc' = "returned"
    /\ UNCHANGED <<cfg, pa_calls, outVars, now, is_running, audio_queue, processing_queue, translation_queue,
                   joined, cap_pc, seg_pc, rec_pc, tr_pc, segVars, recVars, trVars>>

-----------------------------------------------------------------------------
(* SpeechRecognition.recognition_thread *)

Texts == {"a", "b"}            \* recognised texts after strip(); "" is the empty text
DedupWindow == 5 * TicksPerSecond      \* line 102: 5 seconds
LogBufferSize == 10                    \* line 65: _log_buffer_size

\* variant: the text is queued without its pair_id
Item_NoPairId(text, pair_id) == [text |-> text, pair_id |-> 0]

\* line 115: the dict put on translation_queue
Item(text, pair_id) == [text |-> text, pair_id |-> pair_id]

\* _flush_log_buffer (lines 161-171): an IOError leaves the buffer as it is
FlushLog(buf, file, ok) ==
    IF buf = <<>> \/ ~ok THEN <<buf, file>> ELSE <<<<>>, file \o buf>>

\* _add_to_log_buffer (lines 150-159)
AddToLog(buf, file, text, ok) ==
    IF Len(buf) + 1 >= LogBufferSize
    THEN FlushLog(Append(buf, text), file, ok)
    ELSE <<Append(buf, text), file>>

RecIdle == [kind |-> "idle", forwarded |-> FALSE, text |-> ""]

\* variant: the loop does not look at the flag
RecLoopCheck_IgnoresFlag(flushOk) ==
    /\ rec_pc = "check"
    /\ rec_pc' = "body"
    /\ UNCHANGED <<cfg, pa_calls, outVars, now, is_running, audio_queue, processing_queue, translation_queue,
                   main_pc, joined, cap_pc, seg_pc, tr_pc, segVars, recVars, trVars>>

\* line 70: while is_running.is_set(); line 132: the final flush
RecLoopCheck(flushOk) ==
    /\ rec_pc = "check"
    /\ IF is_running
       THEN /\ rec_pc' = "body"
            /\ UNCHANGED <<log_buffer, log_file>>
       ELSE /\ rec_pc' = "done"
            /\ log_buffer' = FlushLog(log_buffer, log_file, flushOk)[1]
            /\ log_file' = FlushLog(log_buffer, log_file, flushOk)[2]
    /\ rec_last' = RecIdle
    /\ UNCHANGED <<cfg, pa_calls, outVars, now, is_running, audio_queue, processing_queue, translation_queue,
                   main_pc, joined, cap_pc, seg_pc, tr_pc, segVars,
                   last_text, last_text_time, next_pair, trVars>>

\* lines 125-127: queue.Empty after the 0.5 s timeout
RecognizeTimeout ==
    /\ rec_pc = "body"
    /\ processing_queue = <<>>
    /\ rec_pc' = "check"
    /\ UNCHANGED <<cfg, pa_calls, outVars, now, is_running, audio_queue, processing_queue, translation_queue,
                   main_pc, joined, cap_pc, seg_pc, tr_pc, segVars, recVars, trVars>>

\* what the Recognizer call can give: "raise", or the stripped text; the
\* model lets it give at most maxItems texts that get forwarded
RecognizerResults(maxItems) ==
    IF next_pair < maxItems THEN {"raise", ""} \cup Texts ELSE {"raise", ""}

\* variant: the exception is taken for a recognised text
Forwards_RaiseAsText(result, current_time) ==
    /\ result # ""
    /\ (result # last_text \/ current_time - last_text_time > DedupWindow)

\* lines 95-102: a raise skips the segment (continue); a text goes on when it
\* is not empty and is not a repeat of the last one within 5 seconds
Forwards(result, current_time) ==
    /\ result # "raise"
    /\ result # ""
    /\ (result # last_text \/ current_time - last_text_time > DedupWindow)

\* lines 72-123: one segment; result is "raise" when the Recognizer call
\* raises, otherwise the stripped text it returned
RecognizeSegment(result, flushOk, maxItems) ==
    /\ rec_pc = "body"
    /\ processing_queue # <<>>
    /\ result \in RecognizerResults(maxItems)
    /\ processing_queue' = Tail(processing_queue)
    /\ rec_pc' = "check"
    /\ LET current_time == now
           forward == Forwards(result, current_time)
       IN  /\ rec_last' = [kind |-> IF result = "raise" THEN "raise" ELSE "text",
                           forwarded |-> forward,
                           text |-> IF result = "raise" THEN "" ELSE result]
           /\ IF forward
              THEN /\ last_text' = result
                   /\ last_text_time' = current_time
                   /\ next_pair' = next_pair + 1
                   /\ translation_queue' = QueuePut(translation_queue, Item(result, next_pair + 1))
                   /\ log_buffer' = AddToLog(log_buffer, log_file, result, flushOk)[1]
                   /\ log_file' = AddToLog(log_buffer, log_file, result, flushOk)[2]
              ELSE UNCHANGED <<translation_queue, last_text, last_text_time, next_pair,
                               log_buffer, log_file>>
    /\ UNCHANGED <<cfg, pa_calls, outVars, now, is_running, audio_queue,
                   main_pc, joined, cap_pc, seg_pc, tr_pc, segVars, trVars>>

-----------------------------------------------------------------------------
(* Translation *)

MaxRun == 3            \* invalid results in a row a loaded backend gives
MaxLoadFailures == 1   \* load_model calls that raise in a run of the model

Min(a, b) == IF a < b THEN a ELSE b

model_type == cfg.model_type      \* set by load_model; 'api', 'gguf' or 'transformers'

TrIdle == [kind |-> "idle", reloads |-> 0]

\* a model handle is an object; a fresh one differs from the one it replaces
NewHandle(old) == IF 1 \in old THEN 2 ELSE 1

\* load_model (lines 220-337): the existing model / tokenizer / client is
\* released first (lines 224-236); then the backend is created, and an
\* exception in that is re-raised (lines 335-337) with nothing loaded
load_model(old, ok) == IF ok THEN {NewHandle(old)} ELSE {}

\* variant: nothing is evicted
ContextAppend_Unbounded(window, text) == Append(window, text)

\* deque(maxlen=context_window_size).append of preprocess_text(text);
\* preprocess_text is strip(), which leaves a recognised text as it is
\* (it was stripped at speech_recognition.py line 99)
ContextAppend(window, text) ==
    LET w == Append(window, text)
    IN  IF Len(w) > cfg.context_window_size THEN Tail(w) ELSE w

\* lines 347-351: the retries taken from the head of failed_translations
BatchRetries(failed) == SubSeq(failed, 1, Min(Len(failed), cfg.batch_size))

\* variant: the fresh items are counted without the retries already taken
BatchFresh_IgnoreRetries(queue, nretries) == SubSeq(queue, 1, Min(Len(queue), cfg.batch_size))

\* lines 355-376: the fresh items read from translation_queue behind nretries
\* retries (a first get with timeout when the batch is empty, then get_nowait)
BatchFresh(queue, nretries) == SubSeq(queue, 1, Min(Len(queue), cfg.batch_size - nretries))

Drop(seq, n) == SubSeq(seq, n + 1, Len(seq))

\* line 343: while is_running.is_set()
TrLoopCheck ==
    /\ tr_pc = "check"
    /\ tr_pc' = IF is_running THEN "batching" ELSE "done"
    /\ tr_last' = TrIdle
    /\ UNCHANGED <<cfg, pa_calls, outVars, now, is_running, audio_queue, processing_queue, translation_queue,
                   main_pc, joined, cap_pc, seg_pc, rec_pc, segVars, recVars,
                   texts_to_translate, batch_idx, failed_translations, consecutive_errors,
                   handles, load_failures, invalid_run, forced_reloads,
                   last_reload_time, last_load_time, context_window, delivered>>

\* lines 345-376: build the batch.  With no retry and nothing in the queue
\* the get times out: break if the flag was cleared, else continue, which
\* starts the next iteration without reaching check_model_reload.
BuildBatch ==
    /\ tr_pc = "batching"
    /\ LET retries == BatchRetries(failed_translations)
           fresh   == BatchFresh(translation_queue, Len(retries))
       IN  IF retries = <<>> /\ translation_queue = <<>>
           THEN /\ tr_pc' = IF is_running THEN "check" ELSE "done"
                /\ tr_last' = [kind |-> "timeout", reloads |-> 0]
                /\ UNCHANGED <<translation_queue, texts_to_translate, batch_idx,
                               failed_translations>>
           ELSE /\ texts_to_translate' = retries \o fresh
                /\ failed_translations' = Drop(failed_translations, Len(retries))
                /\ translation_queue' = Drop(translation_queue, Len(fresh))
                /\ batch_idx' = 1
                /\ tr_pc' = "translating"
                /\ tr_last' = [kind |-> "batch", reloads |-> 0,
                               nretries |-> Len(retries), nfresh |-> Len(fresh)]
    /\ UNCHANGED <<cfg, pa_calls, outVars, now, is_running, audio_queue, processing_queue,
                   main_pc, joined, cap_pc, seg_pc, rec_pc, segVars, recVars,
                   consecutive_errors, handles, load_failures, invalid_run,
                   forced_reloads, last_reload_time, last_load_time, context_window, delivered>>

\* Texts given to is_valid_translation: a str is the sequence of its
\* characters; None is the one value that is not a str
MaxText == 4
Chars == {"a", "!", " ", "\t"}
Whitespace == {" ", "\t"}          \* characters str.isspace() accepts
None == <<"None">>

RECURSIVE StrsUpTo(_)
StrsUpTo(n) ==
    IF n = 0 THEN {<<>>}
    ELSE LET shorter == StrsUpTo(n - 1)
         IN  shorter \cup { Append(t, c) : t \in { u \in shorter : Len(u) = n - 1 }, c \in Chars }

ValidationInputs == StrsUpTo(MaxText) \cup {None}

\* bool(text): None and the empty str are falsy
bool(text) == text # None /\ text # <<>>

\* len(set(text))
DistinctChars(text) == Cardinality({ text[i] : i \in 1..Len(text) })

\* str.startswith / str.endswith
startswith(text, prefix) ==
    Len(text) >= Len(prefix) /\ SubSeq(text, 1, Len(prefix)) = prefix

endswith(text, suffix) ==
    Len(text) >= Len(suffix) /\ SubSeq(text, Len(text) - Len(suffix) + 1, Len(text)) = suffix

Marker == <<"!", "!", "!">>

\* line 562: bool(text) and len(set(text)) > 1 and not text.startswith('!!!')
\* and not text.endswith('!!!'); `and` stops at the first falsy operand, so
\* None never reaches len(set(...))
is_valid_translation(text) ==
    /\ bool(text)
    /\ DistinctChars(text) > 1
    /\ ~startswith(text, Marker)
    /\ ~endswith(text, Marker)

\* a text comes back from translate_text (line 389) ...
TranslatorReturns(text) ==
    /\ tr_last.kind = "idle"
    /\ tr_last' = [kind |-> "returned", reloads |-> 0, text |-> text]
    /\ UNCHANGED <<cfg, pa_calls, outVars, now, is_running, audio_queue, processing_queue, translation_queue,
                   pcVars, segVars, recVars,
                   texts_to_translate, batch_idx, failed_translations, consecutive_errors,
                   handles, load_failures, invalid_run, forced_reloads,
                   last_reload_time, last_load_time, context_window, delivered>>

\* ... and is tested with is_valid_translation (line 391)
ValidateText ==
    /\ tr_last.kind = "returned"
    /\ tr_last' = [kind |-> "validated", reloads |-> 0, text |-> tr_last.text,
                   valid |-> is_valid_translation(tr_last.text)]
    /\ UNCHANGED <<cfg, pa_calls, outVars, now, is_running, audio_queue, processing_queue, translation_queue,
                   pcVars, segVars, recVars,
                   texts_to_translate, batch_idx, failed_translations, consecutive_errors,
                   handles, load_failures, invalid_run, forced_reloads,
                   last_reload_time, last_load_time, context_window, delivered>>

\* translate_text (lines 444-557) followed by is_valid_translation: what the
\* caller sees when the backend call behaves as outcome.  The API branch
\* catches the exception and returns "" (lines 467-483); the MLX, GGUF and
\* transformers branches let it propagate.
TranslateResult(outcome) ==
    IF outcome = "raise" /\ model_type = "api" THEN "invalid" ELSE outcome

\* the backend calls that can happen: with no handle loaded the call raises;
\* a loaded backend that recovers gives at most MaxRun invalid results in a
\* row; one that does not recover can give an invalid result at every call
TranslatorOutcomes ==
    IF handles = {} THEN {"raise"}
    ELSE IF ~cfg.backend_recovers \/ invalid_run < MaxRun THEN {"valid", "invalid", "raise"}
    ELSE IF model_type = "api" THEN {"valid"}
    ELSE {"valid", "raise"}

\* the outcomes load_model can have
LoadOutcomes == IF load_failures < MaxLoadFailures THEN BOOLEAN ELSE {TRUE}

\* variant: the Failure Queue keeps only the latest entry
FailureAppend_Capped(failed, item) == <<item>>

\* line 567: failed_translations.append(text), a list with no cap
FailureAppend(failed, item) == Append(failed, item)

\* lines 420-434: after the for loop the translated texts of the batch are
\* appended to the log file, if there are any
WriteLog(file, texts) == file \o texts

\* lines 405-410: tts.speak inside its own try block; speak puts the text on
\* speech_queue (text_to_speech.py line 323)
Speak(queue, item, speakOk) ==
    IF cfg.tts /\ speakOk THEN QueuePut(queue, item) ELSE queue

\* variant: the UI is told only when the synthesizer took the text
SendToWeb_AfterSpeech(sent, item, speakOk) ==
    IF cfg.web_ui /\ speakOk THEN Append(sent, item) ELSE sent

\* lines 413-414: web_ui.send_translated_text, after the try block of the TTS
SendToWeb(sent, item, speakOk) ==
    IF cfg.web_ui THEN Append(sent, item) ELSE sent

\* lines 379-434 for the item at batch_idx, with handle_translation_error
\* (lines 564-575) on an invalid result; an exception leaves the for loop for
\* the handler at lines 436-438: the rest of the batch is not processed and
\* the log lines of the batch are not written
TranslateItemTo(outcome, loadOk, speakOk) ==
    /\ tr_pc = "translating"
    /\ batch_idx <= Len(texts_to_translate)
    /\ outcome \in TranslatorOutcomes
    /\ loadOk \in LoadOutcomes
    /\ LET item   == texts_to_translate[batch_idx]
           result == TranslateResult(outcome)
           errors == consecutive_errors + 1
           reload == errors >= cfg.max_consecutive_errors
           last   == batch_idx = Len(texts_to_translate)
           \* history: the batch is retries \o fresh (lines 347-376)
           nretries == tr_last.nretries
           retry  == batch_idx <= nretries
       IN  CASE result = "raise" ->
                  /\ tr_pc' = "reload_check"
                  /\ texts_to_translate' = <<>>
                  /\ batch_idx' = 1
                  /\ tr_last' = [kind |-> "raise", item |-> item, reloads |-> 0,
                                 nretries |-> nretries, retry |-> retry]
                  /\ translated_texts' = <<>>
                  /\ UNCHANGED <<translated_log, web_sent, speech_queue>>
                  /\ UNCHANGED <<failed_translations, consecutive_errors, handles,
                                 load_failures, invalid_run, forced_reloads,
                                 last_load_time, context_window, delivered>>
             [] result = "valid" ->
                  /\ context_window' = ContextAppend(context_window, item.text)
                  /\ consecutive_errors' = 0
                  /\ delivered' = Append(delivered, item)
                  /\ invalid_run' = 0
                  /\ forced_reloads' = 0
                  /\ batch_idx' = IF last THEN 1 ELSE batch_idx + 1
                  /\ texts_to_translate' = IF last THEN <<>> ELSE texts_to_translate
                  /\ tr_pc' = IF last THEN "reload_check" ELSE "translating"
                  /\ tr_last' = [kind |-> "valid", item |-> item, reloads |-> 0,
                                 nretries |-> nretries, retry |-> retry,
                                 speak |-> IF ~cfg.tts THEN "none"
                                           ELSE IF speakOk THEN "ok" ELSE "raise"]
                  /\ speech_queue' = Speak(speech_queue, item, speakOk)
                  /\ web_sent' = SendToWeb(web_sent, item, speakOk)
                  /\ translated_texts' =
                        IF last THEN <<>> ELSE Append(translated_texts, item)
                  /\ translated_log' =
                        IF last THEN WriteLog(translated_log, Append(translated_texts, item))
                        ELSE translated_log
                  /\ UNCHANGED <<failed_translations, handles, load_failures,
                                 last_load_time>>
             [] result = "invalid" ->
                  /\ invalid_run' = Min(invalid_run + 1, MaxRun)
                  /\ failed_translations' = FailureAppend(failed_translations, item)
                  /\ tr_last' = [kind |-> "invalid", item |-> item,
                                 reloads |-> IF reload THEN 1 ELSE 0,
                                 raised |-> outcome = "raise",
                                 nretries |-> nretries, retry |-> retry]
                  /\ IF reload
                     THEN /\ handles' = load_model(handles, loadOk)
                          /\ load_failures' = load_failures + (IF loadOk THEN 0 ELSE 1)
                          /\ forced_reloads' = Min(forced_reloads + 1, MaxRun)
                          /\ consecutive_errors' = IF loadOk THEN 0 ELSE errors
                          /\ last_load_time' = IF loadOk THEN now ELSE last_load_time
                     ELSE /\ consecutive_errors' = errors
                          /\ UNCHANGED <<handles, load_failures, forced_reloads,
                                         last_load_time>>
                  /\ IF (reload /\ ~loadOk) \/ last
                     THEN /\ tr_pc' = "reload_check"
                          /\ texts_to_translate' = <<>>
                          /\ batch_idx' = 1
                          /\ translated_texts' = <<>>
                          /\ translated_log' =
                                IF reload /\ ~loadOk THEN translated_log
                                ELSE WriteLog(translated_log, translated_texts)
                     ELSE /\ tr_pc' = "translating"
                          /\ batch_idx' = batch_idx + 1
                          /\ UNCHANGED <<texts_to_translate, translated_texts,
                                         translated_log>>
                  /\ UNCHANGED <<web_sent, speech_queue>>
                  /\ UNCHANGED <<context_window, delivered>>
    /\ UNCHANGED <<cfg, pa_calls, tts_pc, now, is_running, audio_queue, processing_queue,
                   translation_queue, main_pc, joined, cap_pc, seg_pc, rec_pc, segVars,
                   recVars, last_reload_time>>

\* the same when the synthesizer takes every text
TranslateItem(outcome, loadOk) == TranslateItemTo(outcome, loadOk, TRUE)

-----------------------------------------------------------------------------
(* TextToSpeech._speech_worker, started by the constructor (line 85) *)

\* line 125: speech_queue.get(), with no timeout: the worker stays in the
\* call until an item is there.  TextToSpeech.is_running is cleared only by
\* stop(), which the pipeline does not call.
SpeechGet ==
    /\ tts_pc = "get"
    /\ speech_queue # <<>>
    /\ speech_queue' = Tail(speech_queue)
    /\ tts_pc' = "playing"
    /\ UNCHANGED <<cfg, pa_calls, translated_texts, translated_log, web_sent, now,
                   is_running, audio_queue, processing_queue, translation_queue,
                   pcVars, segVars, recVars, trVars>>

\* lines 131-137: _synthesize_and_play; an exception is caught in the loop
SpeechPlay ==
    /\ tts_pc = "playing"
    /\ tts_pc' = "get"
    /\ UNCHANGED <<cfg, pa_calls, translated_texts, translated_log, web_sent, speech_queue,
                   now, is_running, audio_queue, processing_queue, translation_queue,
                   pcVars, segVars, recVars, trVars>>


\* variant: the reload is due as soon as the interval is reached
ReloadDue_AtInterval(current_time) ==
    /\ model_type # "api"
    /\ current_time - last_reload_time >= cfg.reload_interval

\* lines 580-584: no reload in API mode; otherwise the reload is due when
\* more than reload_interval has passed since last_reload_time
ReloadDue(current_time) ==
    /\ model_type # "api"
    /\ current_time - last_reload_time > cfg.reload_interval

\* line 440 and check_model_reload (lines 577-588).  The call is outside the
\* try block of the loop: an exception of load_model ends the thread.
CheckModelReload(loadOk) ==
    /\ tr_pc = "reload_check"
    /\ loadOk \in LoadOutcomes
    /\ LET current_time == now
           due == ReloadDue(current_time)
       IN  IF due
           THEN /\ handles' = load_model(handles, loadOk)
                /\ load_failures' = load_failures + (IF loadOk THEN 0 ELSE 1)
                /\ last_reload_time' = IF loadOk THEN current_time ELSE last_reload_time
                /\ last_load_time' = IF loadOk THEN current_time ELSE last_load_time
                /\ tr_pc' = IF loadOk THEN "check" ELSE "crashed"
                /\ tr_last' = [kind |-> "reload_check", reloads |-> 1]
           ELSE /\ tr_pc' = "check"
                /\ tr_last' = [kind |-> "reload_check", reloads |-> 0]
                /\ UNCHANGED <<handles, load_failures, last_reload_time, last_load_time>>
    /\ UNCHANGED <<cfg, pa_calls, outVars, now, is_running, audio_queue, processing_queue, translation_queue,
                   main_pc, joined, cap_pc, seg_pc, rec_pc, segVars, recVars,
                   texts_to_translate, batch_idx, failed_translations, consecutive_errors,
                   invalid_run, forced_reloads, context_window, delivered>>

-----------------------------------------------------------------------------
(* Recognition output arriving at the translation worker *)

MaxItems == 3        \* text items (pair_ids) issued in a run of the model

\* speech_recognition.py lines 102-117: a text that passes the repeat check
\* gets a pair_id, is put on translation_queue and is added to the log
\* buffer (the recognition worker taken as the producer of the queue only)
PutText(text, maxItems) ==
    /\ rec_pc = "check"
    /\ next_pair < maxItems
    /\ text # last_text \/ now - last_text_time > DedupWindow
    /\ last_text' = text
    /\ last_text_time' = now
    /\ next_pair' = next_pair + 1
    /\ translation_queue' = QueuePut(translation_queue, Item(text, next_pair + 1))
    /\ log_buffer' = AddToLog(log_buffer, log_file, text, TRUE)[1]
    /\ log_file' = AddToLog(log_buffer, log_file, text, TRUE)[2]
    /\ rec_last' = RecIdle
    /\ UNCHANGED <<cfg, pa_calls, outVars, now, is_running, audio_queue, processing_queue,
                   pcVars, segVars, trVars>>

-----------------------------------------------------------------------------
(* Configurations and initial states *)

ModelTypes == {"api", "gguf", "transformers"}

TrConfigs ==
    { [batch_size |-> 2, max_consecutive_errors |-> e, reload_interval |-> 1,
       context_window_size |-> 2, model_type |-> m, tts |-> TRUE, web_ui |-> TRUE,
       backend_recovers |-> TRUE] :
         e \in {2, 3}, m \in ModelTypes }

PipeSegConfig ==
    [min_buffer_duration |-> 2, max_buffer_duration |-> 3,
     medium_pause_duration |-> 1, long_pause_duration |-> 2]

PipeTrConfig ==
    [batch_size |-> 2, max_consecutive_errors |-> 2, reload_interval |-> 1,
     context_window_size |-> 2, model_type |-> "gguf", tts |-> TRUE, web_ui |-> TRUE,
     backend_recovers |-> TRUE]

\* the state after the objects were constructed (Translation.__init__ has
\* loaded the model, lines 129-165; run() has not started the threads)
InitState ==
    /\ now = 0
    /\ is_running = TRUE
    /\ main_pc = "init"
    /\ joined = 0
    /\ cap_pc = "idle"
    /\ pa_calls = <<>>
    /\ seg_pc = "idle"
    /\ rec_pc = "idle"
    /\ tr_pc = "idle"
    /\ audio_queue = <<>>
    /\ processing_queue = <<>>
    /\ translation_queue = <<>>
    /\ buffer = <<>>
    /\ silence_start = NoTime
    /\ last_voice_activity = 0
    /\ buffer_start_time = 0
    /\ seg_last = SegIdle
    /\ last_text = ""
    /\ last_text_time = 0
    /\ next_pair = 0
    /\ log_buffer = <<>>
    /\ log_file = <<>>
    /\ rec_last = RecIdle
    /\ texts_to_translate = <<>>
    /\ batch_idx = 1
    /\ failed_translations = <<>>
    /\ consecutive_errors = 0
    /\ handles = {1}
    /\ load_failures = 0
    /\ invalid_run = 0
    /\ forced_reloads = 0
    /\ last_reload_time = 0
    /\ last_load_time = 0
    /\ context_window = <<>>
    /\ delivered = <<>>
    /\ tr_last = TrIdle
    /\ translated_texts = <<>>
    /\ translated_log = <<>>
    /\ web_sent = <<>>
    /\ speech_queue = <<>>
    /\ tts_pc = IF cfg.tts THEN "get" ELSE "none"

InitSegmenter ==
    /\ cfg \in { sc @@ PipeTrConfig : sc \in SegConfigs }
    /\ InitState

InitTranslation ==
    /\ cfg \in { PipeSegConfig @@ tc : tc \in TrConfigs }
    /\ InitState

Init ==
    /\ cfg = PipeSegConfig @@ PipeTrConfig
    /\ InitState

-----------------------------------------------------------------------------
(* The segmenter with its producer and its consumer *)

NextSegmenter ==
    \/ RunStart
    \/ Tick(MaxTime)
    \/ \E ok \in BOOLEAN : CaptureOpen(ok)
    \/ \E data \in AllFrames : audio_callback(data, MaxQueue)
    \/ SegLoopCheck
    \/ ProcessFrame
    \/ ProcessTimeout
    \/ RecLoopCheck(TRUE)
    \/ RecognizeTimeout
    \/ RecognizeSegment("raise", TRUE, 0)

SpecSegmenter == InitSegmenter /\ [][NextSegmenter]_vars

\* the segmenter when the calls it makes on the audio can raise
NextSegmenterErrors ==
    \/ NextSegmenter
    \/ \E at \in RaisePoints : ProcessFrameRaises(at)
    \/ ProcessTimeoutRaises

SpecSegmenterErrors == InitSegmenter /\ [][NextSegmenterErrors]_vars

-----------------------------------------------------------------------------
(* The segmenter fed a given signal at the steady frame rate *)

ScenarioTail == 4     \* ticks the clock is followed after the signal has ended

\* DynamicBufferConfig defaults, in ticks: min 2.0 s, max 30.0 s, long pause
\* 1.5 s; medium pause 0.8 s, which a pause measured at frame times (whole
\* ticks) reaches when it reaches 2 ticks
ScenarioSegConfig ==
    [min_buffer_duration |-> 2 * TicksPerSecond,
     max_buffer_duration |-> 30 * TicksPerSecond,
     medium_pause_duration |-> 2,
     long_pause_duration |-> 3]

\* a signal: for each tick of its duration, whether the frame of that tick
\* has voice
Signal(voicedTicks, silentTicks) ==
    [t \in 1..(voicedTicks + silentTicks) |-> t <= voicedTicks]

\* A: 10 s of silence; B: voice for max_buffer_duration; C: 3 s of voice
\* followed by 2 s of silence
Scenarios ==
    { [scenario |-> "A", feed |-> Signal(0, 10 * TicksPerSecond)],
      [scenario |-> "B", feed |-> Signal(ScenarioSegConfig.max_buffer_duration, 0)],
      [scenario |-> "C", feed |-> Signal(3 * TicksPerSecond, 2 * TicksPerSecond)] }

\* the frame the callback delivers at tick t: the samples of the tick that
\* has just passed, so that int(t * sample_rate) samples were delivered by t
ScenarioFrame(t) ==
    Frame(DurationToSamples(t) - DurationToSamples(t - 1), cfg.feed[t])

\* a tick of the signal passes and the callback puts its frame; the segmenter
\* keeps up with the source, it has read the frame of the tick before
FeedTick ==
    /\ main_pc # "init"
    /\ now < Len(cfg.feed)
    /\ audio_queue = <<>>
    /\ now' = now + 1
    /\ audio_queue' = Append(audio_queue, ScenarioFrame(now + 1))
    /\ UNCHANGED <<cfg, pa_calls, outVars, is_running, processing_queue, translation_queue,
                   pcVars, segVars, recVars, trVars>>

\* the signal has ended and its last frame has been read: time passes and
\* no frame comes
TailTick ==
    /\ now >= Len(cfg.feed)
    /\ audio_queue = <<>>
    /\ Tick(Len(cfg.feed) + ScenarioTail)

InitScenario ==
    /\ cfg \in { ScenarioSegConfig @@ PipeTrConfig @@ sc : sc \in Scenarios }
    /\ InitState

NextScenario ==
    \/ RunStart
    \/ FeedTick
    \/ TailTick
    \/ SegLoopCheck
    \/ ProcessFrame
    \/ ProcessTimeout
    \/ RecLoopCheck(TRUE)
    \/ RecognizeTimeout
    \/ RecognizeSegment("raise", TRUE, 0)

SpecScenario == InitScenario /\ [][NextScenario]_vars

-----------------------------------------------------------------------------
(* has_voice_activity on frames of every format *)

NextClassify ==
    \E format \in Formats :
        \E audio_data \in SampleFrames(format), vat \in Thresholds, zcrt \in Thresholds :
            ClassifyFrame(audio_data, format, vat, zcrt)

SpecClassify == Init /\ [][NextClassify]_vars

-----------------------------------------------------------------------------
(* The recognition worker with its producer *)

RecMaxTime  == 12     \* ticks of the clock followed (the repeat window is 10)
RecMaxQueue == 2      \* segments the model lets wait in processing_queue

\* processing.py lines 139-141: a segment of at least min_buffer_size samples
\* is put on processing_queue (the segmenter taken as the producer only)
PutSegment(bound) ==
    /\ seg_pc = "check"
    /\ Len(processing_queue) < bound
    /\ \E voiced \in BOOLEAN :
          processing_queue' = QueuePut(processing_queue, Samples(Frame(min_buffer_size, voiced)))
    /\ UNCHANGED <<cfg, pa_calls, outVars, now, is_running, audio_queue, translation_queue,
                   pcVars, segVars, recVars, trVars>>

NextRecognition ==
    \/ RunStart
    \/ KeyboardInterrupt
    \/ Tick(RecMaxTime)
    \/ PutSegment(RecMaxQueue)
    \/ \E flushOk \in BOOLEAN : RecLoopCheck(flushOk)
    \/ RecognizeTimeout
    \/ \E result \in {"raise", ""} \cup Texts, flushOk \in BOOLEAN :
          RecognizeSegment(result, flushOk, MaxItems)

SpecRecognition == Init /\ [][NextRecognition]_vars

-----------------------------------------------------------------------------
(* The capture thread with every outcome of its PyAudio calls *)

CapMaxTime  == 3
CapMaxQueue == 2

StartOutcomes == {"PyAudio", "open", "start_stream", "none"}

NextCapture ==
    \/ RunStart
    \/ KeyboardInterrupt
    \/ Tick(CapMaxTime)
    \/ \E data \in AllFrames : audio_callback(data, CapMaxQueue)
    \/ \E raises_at \in StartOutcomes, outcome \in CleanupOutcomes :
          CaptureStart(raises_at, outcome)
    \/ \E outcome \in CleanupOutcomes : CaptureLoopExit(outcome)
    \/ CaptureSleep

SpecCapture == Init /\ [][NextCapture]_vars

-----------------------------------------------------------------------------
(* The recognition worker filling its log buffer *)

LogMaxItems == 11      \* texts forwarded in a run: one more than LogBufferSize

NextRecLog ==
    \/ RunStart
    \/ KeyboardInterrupt
    \/ PutSegment(1)
    \/ \E flushOk \in BOOLEAN : RecLoopCheck(flushOk)
    \/ RecognizeTimeout
    \/ \E result \in {"raise", ""} \cup Texts, flushOk \in BOOLEAN :
          RecognizeSegment(result, flushOk, LogMaxItems)

SpecRecLog == Init /\ [][NextRecLog]_vars

\* the same when every write to the log file succeeds
NextRecLogWritten ==
    \/ RunStart
    \/ KeyboardInterrupt
    \/ PutSegment(1)
    \/ RecLoopCheck(TRUE)
    \/ RecognizeTimeout
    \/ \E result \in {"raise", ""} \cup Texts : RecognizeSegment(result, TRUE, LogMaxItems)

SpecRecLogWritten == Init /\ [][NextRecLogWritten]_vars

-----------------------------------------------------------------------------
(* The translation worker with its producer *)

TrMaxTime == 2       \* ticks of the clock followed in the translation model

NextTranslation ==
    \/ RunStart
    \/ Tick(TrMaxTime)
    \/ \E text \in Texts : PutText(text, MaxItems)
    \/ TrLoopCheck
    \/ BuildBatch
    \/ \E outcome \in {"valid", "invalid", "raise"}, loadOk \in BOOLEAN :
          TranslateItem(outcome, loadOk)
    \/ \E loadOk \in BOOLEAN : CheckModelReload(loadOk)

SpecTranslation == InitTranslation /\ [][NextTranslation]_vars

\* The translation worker alone with its producer, scheduled fairly, the
\* flag staying set and every load_model call returning; the backend either
\* recovers or keeps giving invalid results.
StarveMaxTime == 1
StarveMaxItems == 3

InitStarvation ==
    /\ cfg \in { [PipeSegConfig @@ PipeTrConfig EXCEPT !.backend_recovers = r] :
                   r \in BOOLEAN }
    /\ InitState

StarveWorker ==
    \/ TrLoopCheck
    \/ BuildBatch
    \/ \E outcome \in {"valid", "invalid", "raise"} : TranslateItem(outcome, TRUE)
    \/ CheckModelReload(TRUE)

NextStarvation ==
    \/ RunStart
    \/ Tick(StarveMaxTime)
    \/ \E text \in Texts : PutText(text, StarveMaxItems)
    \/ StarveWorker

SpecStarvation ==
    /\ InitStarvation
    /\ [][NextStarvation]_vars
    /\ WF_vars(StarveWorker)

-----------------------------------------------------------------------------
(* The translation worker with its downstream consumers *)

FwdMaxTime  == 2
FwdMaxItems == 2

SinkConfigs ==
    { [PipeSegConfig @@ PipeTrConfig EXCEPT !.tts = t, !.web_ui = w] : t, w \in BOOLEAN }

InitForwarding ==
    /\ cfg \in SinkConfigs
    /\ InitState

NextForwarding ==
    \/ RunStart
    \/ KeyboardInterrupt
    \/ Tick(FwdMaxTime)
    \/ \E text \in Texts : PutText(text, FwdMaxItems)
    \/ TrLoopCheck
    \/ BuildBatch
    \/ \E outcome \in {"valid", "invalid", "raise"}, loadOk, speakOk \in BOOLEAN :
          TranslateItemTo(outcome, loadOk, speakOk)
    \/ \E loadOk \in BOOLEAN : CheckModelReload(loadOk)
    \/ SpeechGet
    \/ SpeechPlay

SpecForwarding == InitForwarding /\ [][NextForwarding]_vars



NextValidation ==
    \/ \E text \in ValidationInputs : TranslatorReturns(text)
    \/ ValidateText

SpecValidation == Init /\ [][NextValidation]_vars

-----------------------------------------------------------------------------
(* The whole pipeline: run() and the four workers *)

PipeMaxTime  == 1    \* ticks of the clock followed in the pipeline model
PipeMaxQueue == 2    \* frames the model lets wait in audio_queue
PipeMaxItems == 1    \* text items (pair_ids) issued in a run of the pipeline

\* the frames of the pipeline model: MaxChunk samples without voice, so
\* that a medium pause closes a segment within PipeMaxTime ticks
PipeFrames == { Frame(MaxChunk, FALSE) }

\* what the external calls of the pipeline model can give
PipeResults      == {"raise", "", "a"}        \* Recognizer
PipeOutcomes     == {"valid", "invalid", "raise"}   \* Translator
PipeLoadOutcomes == BOOLEAN                   \* load_model

CaptureStep ==
    \/ \E ok \in BOOLEAN : CaptureOpen(ok)
    \/ CaptureLoopCheck
    \/ CaptureSleep

ProcessingStep ==
    \/ SegLoopCheck
    \/ ProcessFrame
    \/ ProcessTimeout

RecognitionStep ==
    \/ RecLoopCheck(TRUE)
    \/ RecognizeTimeout
    \/ \E result \in PipeResults : RecognizeSegment(result, TRUE, PipeMaxItems)

TranslationStep ==
    \/ TrLoopCheck
    \/ BuildBatch
    \/ \E outcome \in PipeOutcomes, loadOk \in PipeLoadOutcomes :
          TranslateItem(outcome, loadOk)
    \/ \E loadOk \in PipeLoadOutcomes : CheckModelReload(loadOk)

RunStep ==
    \/ RunStart
    \/ KeyboardInterrupt
    \/ ExternalStop
    \/ \E timedOut \in BOOLEAN : JoinNext(timedOut)
    \/ RunReturn

Next ==
    \/ RunStep
    \/ Tick(PipeMaxTime)
    \/ \E data \in PipeFrames : audio_callback(data, PipeMaxQueue)
    \/ CaptureStep
    \/ ProcessingStep
    \/ RecognitionStep
    \/ TranslationStep

Spec == Init /\ [][Next]_vars

\* Each worker is a threading.Thread of its own: a thread that can take
\* a step is eventually scheduled.  Its queue reads have a timeout and its
\* external calls are taken to return, so a step is always possible until
\* the thread has ended.  Nothing is assumed of the clock, of the callback
\* or of run().
FairSpec ==
    /\ Spec
    /\ WF_vars(CaptureStep)
    /\ WF_vars(ProcessingStep)
    /\ WF_vars(RecognitionStep)
    /\ WF_vars(TranslationStep)

\* run() after Ctrl-C: the main thread goes on, and a join with a timeout
\* returns after 3 seconds at the latest.  Nothing is assumed of the workers,
\* which may stop taking steps at any point.
SpecShutdown ==
    /\ Spec
    /\ WF_vars(\E timedOut \in BOOLEAN : JoinNext(timedOut))
    /\ WF_vars(RunReturn)

-----------------------------------------------------------------------------
(* Properties of the segmenter *)

\* C1: every segment on processing_queue, whichever path put it there, has
\* at least min_buffer_size samples
C1_SegmentsReachFloor ==
    \A i \in 1..Len(processing_queue) : Len(processing_queue[i]) >= min_buffer_size

\* a segment has just been put on the queue
C1_Witness ==
    /\ seg_last.emitted
    /\ processing_queue # <<>>

\* a step of ProcessFrame that takes a segmentation decision while a silence
\* window is open: the frame read is unvoiced, and the decision of
\* section 4.2 (rules 1-3) fires on the extended buffer
FrameStep == seg_pc = "body" /\ seg_pc' = "check" /\ audio_queue # <<>>

OpenSilenceDecision ==
    /\ FrameStep
    /\ ~Head(audio_queue).voiced
    /\ seg_last'.reason # "none"

\* the buffer the decision is taken on, and the samples of the open pause
DecisionBuffer == DequeExtend(buffer, Head(audio_queue), max_buffer_size)

PauseSamples ==
    LET since == IF silence_start # NoTime THEN silence_start ELSE now
    IN  ((now - since) * SampleRate) \div TicksPerSecond

TrimmedSlice == SubSeq(DecisionBuffer, 1, Len(DecisionBuffer) - PauseSamples)

\* C2: on a decision with a silence window open, the trimmed slice is emitted
\* if it has at least min_buffer_size samples; otherwise the full buffer is
\* emitted, so a buffer that reaches the floor is not dropped because its
\* trimmed slice is too short (a full buffer below the floor is discarded,
\* as for every segment)
C2_TrimOrFullBuffer ==
    [][OpenSilenceDecision =>
         processing_queue' =
            IF Len(TrimmedSlice) >= min_buffer_size
            THEN Append(processing_queue, TrimmedSlice)
            ELSE IF Len(DecisionBuffer) >= min_buffer_size
                 THEN Append(processing_queue, DecisionBuffer)
                 ELSE processing_queue]_vars

\* what processing_thread does instead: the candidate is the trimmed slice
\* when that slice is not empty and the full buffer only when it is empty;
\* the candidate is emitted if it has at least min_buffer_size samples and
\* dropped otherwise
SegmenterTrimsOrDrops ==
    [][OpenSilenceDecision =>
         LET candidate == IF Len(DecisionBuffer) - PauseSamples > 0
                          THEN TrimmedSlice ELSE DecisionBuffer
         IN  processing_queue' =
                IF Len(candidate) >= min_buffer_size
                THEN Append(processing_queue, candidate)
                ELSE processing_queue]_vars

\* a decision with silence open whose non-empty trimmed slice fell below the
\* floor, so that nothing was emitted
ShortSliceDropped ==
    /\ seg_last.kind = "frame"
    /\ seg_last.reason # "none"
    /\ seg_last.open
    /\ seg_last.cut > 0
    /\ ~seg_last.emitted

\* a step in which a call made for the frame just read raised
FrameRaiseStep ==
    /\ seg_pc = "body"
    /\ seg_pc' # "body"
    /\ Len(audio_queue') < Len(audio_queue)
    /\ seg_last'.kind = "raise"

\* C21: when handling a frame raises, the loop goes on to its next iteration
\* with the flag untouched, nothing is emitted, and the buffer is the one the
\* frame was appended to: the samples held before are all still there, in
\* order, in front of the frame (only the deque's maxlen drops samples from
\* the front, and then the buffer is full), and the buffer start is kept
C21_FrameErrorKeepsBuffer ==
    [][FrameRaiseStep =>
         LET data == Samples(Head(audio_queue))
         IN  /\ seg_pc' = "check"
             /\ is_running' = is_running
             /\ processing_queue' = processing_queue
             /\ buffer_start_time' = buffer_start_time
             /\ \E k \in 0..Len(buffer) :
                   /\ buffer' = SubSeq(buffer, k + 1, Len(buffer)) \o data
                   /\ k > 0 => Len(buffer') = max_buffer_size
      ]_vars

\* preprocess_audio raised on a segmentation decision: the worker is back at
\* the loop test and the buffer still holds a segment's worth of samples
C21_Witness ==
    /\ seg_last.kind = "raise"
    /\ seg_last.at = "preprocess"
    /\ seg_last.reason # "none"
    /\ seg_pc = "check"
    /\ is_running
    /\ Len(buffer) >= min_buffer_size
    /\ Len(buffer) < max_buffer_size

\* C30: the decision after a frame follows a fixed priority: max_duration when
\* buffer_duration >= max_buffer_duration, whatever the pause and the buffer
\* size; otherwise, only with at least min_buffer_size samples in the buffer,
\* medium_pause when pause_duration >= medium_pause_duration, else long_pause
\* when pause_duration >= long_pause_duration; no segmentation in every other case.
C30_DecisionPriority ==
    [][FrameStep =>
         LET data == Head(audio_queue)
             buflen == Len(DequeExtend(buffer, data, max_buffer_size))
             buffer_duration == now - buffer_start_time
             pause == IF has_voice_activity(data) THEN 0
                      ELSE IF silence_start = NoTime THEN 0
                      ELSE now - silence_start
             expected ==
                 CASE buffer_duration >= cfg.max_buffer_duration -> "max_duration"
                   [] /\ buffer_duration < cfg.max_buffer_duration
                      /\ buflen >= min_buffer_size
                      /\ pause >= cfg.medium_pause_duration -> "medium_pause"
                   [] /\ buffer_duration < cfg.max_buffer_duration
                      /\ buflen >= min_buffer_size
                      /\ pause < cfg.medium_pause_duration
                      /\ pause >= cfg.long_pause_duration -> "long_pause"
                   [] OTHER -> "none"
         IN  /\ seg_last'.kind = "frame"
             /\ seg_last'.reason = expected
             /\ (expected = "none") <=> (buffer' # <<>>)]_vars

\* a frame has just closed a segment on the third rule, which needs
\* long_pause_duration below medium_pause_duration
C30_Witness ==
    /\ seg_last.kind = "frame"
    /\ seg_last.reason = "long_pause"
    /\ seg_last.emitted
    /\ cfg.long_pause_duration < cfg.medium_pause_duration
    /\ buffer = <<>>

\* the pause at the decision of a frame step, from the state before the step
FramePause ==
    IF has_voice_activity(Head(audio_queue)) \/ silence_start = NoTime THEN 0
    ELSE now - silence_start

\* C31: with medium_pause_duration <= long_pause_duration no decision has
\* reason long_pause; a decision has reason long_pause only on a frame, with
\* long_pause_duration <= pause_duration < medium_pause_duration.
C31_LongPauseOnlyBelowMedium ==
    [][(seg_last' # seg_last /\ seg_last'.reason = "long_pause") =>
          /\ FrameStep
          /\ cfg.long_pause_duration <= FramePause
          /\ FramePause < cfg.medium_pause_duration
          /\ ~(cfg.medium_pause_duration <= cfg.long_pause_duration)]_vars

\* a decision with reason long_pause has just been taken on an open silence
\* window, in the configuration with pauses of 1 s (medium) and 0.5 s (long)
C31_Witness ==
    /\ seg_last.reason = "long_pause"
    /\ seg_last.open
    /\ cfg.medium_pause_duration = 2
    /\ cfg.long_pause_duration = 1
    /\ seg_pc = "check"

\* the step of the segmenter after a queue read that timed out
TimeoutStep == seg_pc = "body" /\ seg_pc' # "body" /\ audio_queue = <<>>

\* C32: on a queue-read timeout the buffer is flushed, emitted whole and
\* cleared, exactly when it holds at least min_buffer_size samples and at
\* least long_pause_duration has passed since last_voice_activity, the time of
\* the last voiced frame; otherwise the buffer and the queue stay as they are.
C32_TimeoutFlush ==
    [][TimeoutStep =>
         IF /\ Len(buffer) >= min_buffer_size
            /\ now - last_voice_activity >= cfg.long_pause_duration
         THEN /\ processing_queue' = Append(processing_queue, buffer)
              /\ buffer' = <<>>
         ELSE /\ buffer' = buffer
              /\ processing_queue' = processing_queue]_vars

\* a timeout has just flushed the buffer, and the segment is on the queue
C32_Witness ==
    /\ seg_last.kind = "timeout"
    /\ seg_last.emitted
    /\ buffer = <<>>
    /\ Len(processing_queue) = 1
    /\ Len(processing_queue[1]) >= min_buffer_size
    /\ now - last_voice_activity >= cfg.long_pause_duration

\* a step that flushes the buffer: a frame with a segmentation decision, or a
\* timeout whose two tests held
FlushStep ==
    \/ FrameStep /\ seg_last'.kind = "frame" /\ seg_last'.reason # "none"
    \/ TimeoutStep /\ seg_last'.kind = "timeout" /\ seg_last'.reason = "timeout"

\* C33: after every flush, by a decision on a frame (candidate emitted or
\* not) or by the timeout path, the buffer is empty, buffer_start_time is
\* the time of the flush and silence_start is unset.
C33_FlushResetsState ==
    [][FlushStep =>
         /\ buffer' = <<>>
         /\ buffer_start_time' = now
         /\ silence_start' = NoTime]_vars

\* in the code both paths empty the buffer and restart buffer_start_time;
\* silence_start is unset by the frame path only, the timeout path leaves it
FlushAsCoded ==
    [][FlushStep =>
         /\ buffer' = <<>>
         /\ buffer_start_time' = now
         /\ silence_start' = (IF FrameStep THEN NoTime ELSE silence_start)]_vars

\* a segment with a sample of a frame the VAD classified as voiced
HasVoicedSample(segment) == \E i \in 1..Len(segment) : segment[i] = "v"

\* C36: every segment on processing_queue contains at least one frame that
\* was classified as voiced; no segment of silence only is ever queued.
C36_NoSilentSegment ==
    \A i \in 1..Len(processing_queue) : HasVoicedSample(processing_queue[i])

\* C17: the Segment Buffer never holds more than max_buffer_size samples,
\* whatever the frame sizes and whether or not a decision is taken
C17_BufferWithinMax == Len(buffer) <= max_buffer_size

\* a frame has been added without a decision and the buffer is full
C17_Witness ==
    /\ seg_last.kind = "frame"
    /\ seg_last.reason = "none"
    /\ Len(buffer) = max_buffer_size

-----------------------------------------------------------------------------
(* The segmenter in the three scenarios *)

\* a step that puts a segment on processing_queue
EmitStep == Len(processing_queue') > Len(processing_queue)

\* the segment put by an EmitStep
Emitted == processing_queue'[Len(processing_queue')]

SignalSamples ==
    [i \in 1..DurationToSamples(Len(cfg.feed)) |->
        IF \E t \in 1..Len(cfg.feed) :
              /\ DurationToSamples(t - 1) < i
              /\ i <= DurationToSamples(t)
              /\ cfg.feed[t]
        THEN "v" ELSE "s"]

\* C15: fed only voiced frames at the steady frame rate from a fresh state,
\* the segmenter emits nothing before max_buffer_duration has elapsed; the
\* frame read when it has elapsed closes exactly one segment, with reason
\* max_duration, that is the whole buffer untrimmed; nothing is emitted later
C15_VoiceEmitsOnceAtMax ==
    [][cfg.scenario = "B" =>
         /\ EmitStep =>
               /\ FrameStep
               /\ now = cfg.max_buffer_duration
               /\ seg_last'.reason = "max_duration"
               /\ seg_last'.cut = 0
               /\ Emitted = DecisionBuffer
               /\ Emitted = SignalSamples
         /\ (FrameStep /\ now = cfg.max_buffer_duration) => EmitStep]_vars

\* the one segment of scenario B has just been emitted
C15_Witness ==
    /\ cfg.scenario = "B"
    /\ seg_last.emitted
    /\ seg_last.reason = "max_duration"
    /\ now = cfg.max_buffer_duration
    /\ processing_queue = <<SignalSamples>>

\* the samples of the voiced part of the signal
VoicedSamples ==
    DurationToSamples(Cardinality({t \in 1..Len(cfg.feed) : cfg.feed[t]}))

\* C16: fed 3 seconds of voiced frames followed by 2 seconds of unvoiced
\* frames (medium_pause_duration 0.8 s, min buffer 2 s), the segmenter emits
\* exactly one segment: the frame read when the pause reaches
\* medium_pause_duration closes it, it holds all the voiced samples with the
\* silent tail cut off (of the silence at most the first frame is left, the
\* pause being counted from the time that frame was read), and no other step
\* emits, so the remaining silence gives no second segment
C16_VoiceThenSilence ==
    [][cfg.scenario = "C" =>
         /\ EmitStep =>
               /\ FrameStep
               /\ seg_last'.reason = "medium_pause"
               /\ silence_start # NoTime
               /\ now - silence_start = cfg.medium_pause_duration
               /\ seg_last'.cut > 0
               /\ Len(Emitted) >= VoicedSamples
               /\ \A i \in 1..Len(Emitted) : Emitted[i] = "v" <=> i <= VoicedSamples
               /\ Len(Emitted) - VoicedSamples <= MaxChunk
         /\ (/\ FrameStep
             /\ silence_start # NoTime
             /\ now - silence_start = cfg.medium_pause_duration) => EmitStep]_vars

\* the segment of scenario C has just been emitted, on a medium pause, with
\* part of the buffer cut off
C16_Witness ==
    /\ cfg.scenario = "C"
    /\ seg_last.emitted
    /\ seg_last.reason = "medium_pause"
    /\ seg_last.cut > 0
    /\ Len(processing_queue) = 1
    /\ Len(processing_queue[1]) >= VoicedSamples

-----------------------------------------------------------------------------
(* Properties of the translation worker *)

BatchStep == tr_pc = "batching" /\ tr_pc' = "translating"

\* C3: a batch has at most batch_size items; it is the oldest Failure Queue
\* entries in FIFO order followed by fresh items in queue order, as many as
\* fit; no fresh item is taken while a Failure Queue entry is left out, and
\* what is not taken stays queued in order
C3_BatchRetriesFirst ==
    [][BatchStep =>
         LET waiting == failed_translations \o translation_queue
             batch   == texts_to_translate'
         IN  /\ Len(batch) = Min(cfg.batch_size, Len(waiting))
             /\ batch = SubSeq(waiting, 1, Len(batch))
             /\ failed_translations' \o translation_queue' = Drop(waiting, Len(batch))
             /\ Len(failed_translations') = Len(failed_translations) - tr_last'.nretries
             /\ failed_translations' # <<>> => translation_queue' = translation_queue]_vars

\* a full batch made of a retry followed by a fresh item, one more fresh item
\* left on the queue
C3_Witness ==
    /\ tr_pc = "translating"
    /\ tr_last.kind = "batch"
    /\ tr_last.nretries >= 1
    /\ tr_last.nfresh >= 1
    /\ Len(texts_to_translate) = cfg.batch_size
    /\ translation_queue # <<>>

\* a step of TranslateItem: the worker leaves the for loop or moves on to the
\* next item of the batch
TranslateStep ==
    /\ tr_pc = "translating"
    /\ <<tr_pc, batch_idx>>' # <<tr_pc, batch_idx>>

\* the step of TranslateItem in which the backend call raised
CallRaised ==
    /\ TranslateStep
    /\ tr_last'.kind \in {"raise", "invalid"}
    /\ tr_last'.kind = "invalid" => tr_last'.raised

\* C4: a Translator call that raises is handled as an invalid result, with any
\* backend: the item goes to the tail of the Failure Queue, the
\* consecutive-error counter is incremented (and reset if it reached the
\* threshold), and the loop keeps running
C4_RaiseHandledAsInvalid ==
    [][CallRaised =>
         /\ failed_translations' = Append(failed_translations, texts_to_translate[batch_idx])
         /\ consecutive_errors' \in {consecutive_errors + 1, 0}
         /\ tr_pc' \notin {"done", "crashed"}]_vars

\* C5: the counter never stays at max_consecutive_errors: reaching it causes
\* one reload and a reset to 0, so after k invalid results in a row, counted
\* from counter 0, there were floor(k / max_consecutive_errors) forced reloads
C5_ReloadAtThreshold ==
    /\ consecutive_errors < cfg.max_consecutive_errors
    /\ forced_reloads = invalid_run \div cfg.max_consecutive_errors
    /\ consecutive_errors = invalid_run % cfg.max_consecutive_errors
    /\ tr_last.kind = "invalid" /\ invalid_run % cfg.max_consecutive_errors = 0
          => tr_last.reloads = 1

\* C40: at every loop-iteration boundary of the translation worker
\* 0 <= consecutive_errors < max_consecutive_errors, whatever the translation
\* results and the reload outcomes were
C40_CounterBelowThreshold ==
    tr_pc = "check" =>
        /\ 0 <= consecutive_errors
        /\ consecutive_errors < cfg.max_consecutive_errors

\* as coded: the counter is below the threshold at the boundary as long as
\* no load_model call has raised (line 572 is followed by the reset of line 573)
CounterBelowThresholdWhileLoadsReturn ==
    (tr_pc = "check" /\ load_failures = 0) =>
        /\ 0 <= consecutive_errors
        /\ consecutive_errors < cfg.max_consecutive_errors

\* C8: while the flag is set no worker loop has terminated
C8_NoLoopTerminates ==
    is_running =>
        \A w \in {"processing", "recognition", "translation"} : ~WorkerEnded(w)

\* C9: at every iteration boundary of the translation worker exactly one
\* model handle is active
C9_OneHandle == tr_pc = "check" => Cardinality(handles) = 1

\* C10: with the remote API backend no step of the translation worker
\* performs a reload
C10_NoReloadWithApi == model_type = "api" => tr_last.reloads = 0

\* a step in which handle_translation_error is called for the current item
HandleErrorStep == TranslateStep /\ tr_last'.kind = "invalid"

\* C12: every call of handle_translation_error appends its item exactly once
\* at the tail of the Failure Queue and increments the consecutive-error
\* counter by one (before a possible threshold reset); the Failure Queue has
\* no cap and never drops or merges entries: it changes only by such an
\* append or by a batch taking entries from its head
C12_FailureQueueAppend ==
    [][/\ HandleErrorStep =>
            /\ failed_translations' =
                   Append(failed_translations, texts_to_translate[batch_idx])
            /\ \/ consecutive_errors' = consecutive_errors + 1
               \/ /\ consecutive_errors + 1 >= cfg.max_consecutive_errors
                  /\ consecutive_errors' = 0
       /\ failed_translations' # failed_translations =>
            \/ HandleErrorStep
            \/ /\ BatchStep
               /\ \E k \in 1..Len(failed_translations) :
                      /\ failed_translations' = Drop(failed_translations, k)
                      /\ SubSeq(texts_to_translate', 1, k) =
                             SubSeq(failed_translations, 1, k)]_vars

\* two failures with no retry in between have left two entries in failure
\* order
C12_Witness ==
    /\ tr_last.kind = "invalid"
    /\ Len(failed_translations) = 2
    /\ failed_translations[1].pair_id < failed_translations[2].pair_id
    /\ tr_last.item = failed_translations[2]

\* the source texts of the last n accepted translations, in acceptance order
LastAccepted(n) ==
    [i \in 1..n |-> delivered[Len(delivered) - n + i].text]

\* C13: the Context Window holds at most context_window_size entries, and
\* they are exactly the most recent source texts whose translation was
\* accepted as valid, in acceptance order (so no text of an invalid
\* translation is in it, and the oldest entry is the one evicted)
C13_ContextWindow ==
    /\ Len(context_window) <= cfg.context_window_size
    /\ context_window = LastAccepted(Min(cfg.context_window_size, Len(delivered)))

\* more translations were accepted than the window holds, one of them only
\* on a retry (it was accepted after a later item): the oldest text has been
\* evicted
C13_Witness ==
    /\ Len(delivered) > cfg.context_window_size
    /\ Len(context_window) = cfg.context_window_size
    /\ \E i \in 1..(Len(delivered) - 1) : delivered[i].pair_id > delivered[i + 1].pair_id

\* str.isspace(): a non-empty str of whitespace characters only
WhitespaceOnly(text) ==
    text # None /\ text # <<>> /\ \A i \in 1..Len(text) : text[i] \in Whitespace

\* C23: is_valid_translation(text) is true exactly when text is non-empty,
\* has more than one distinct character and neither starts nor ends with
\* '!!!'; and the empty string, every whitespace-only string and None are
\* rejected
C23_ValidExactly ==
    tr_last.kind = "validated" =>
        LET text == tr_last.text
        IN  /\ tr_last.valid <=>
                  /\ text # None
                  /\ Len(text) > 0
                  /\ \E i, j \in 1..Len(text) : text[i] # text[j]
                  /\ ~(Len(text) >= 3 /\ SubSeq(text, 1, 3) = Marker)
                  /\ ~(Len(text) >= 3 /\ SubSeq(text, Len(text) - 2, Len(text)) = Marker)
            /\ (text = None \/ text = <<>> \/ WhitespaceOnly(text)) => ~tr_last.valid

\* what the code does: of the whitespace-only strings it rejects those made
\* of one repeated character
ValidationAsCoded ==
    tr_last.kind = "validated" =>
        LET text == tr_last.text
        IN  /\ (text = None \/ text = <<>>) => ~tr_last.valid
            /\ WhitespaceOnly(text) => (tr_last.valid <=> DistinctChars(text) > 1)

AllZero(audio_data) == \A i \in 1..Len(audio_data) : audio_data[i] = 0

\* C24: whatever the format and the two thresholds, a frame whose samples are
\* all zero is classified as unvoiced
C24_ZeroFrameUnvoiced ==
    (seg_last.kind = "classified" /\ AllZero(seg_last.audio_data)) => ~seg_last.has_voice

\* what the code does: the zero frame is unvoiced as soon as one of the two
\* thresholds is not negative
ZeroFrameUnvoicedNonNegative ==
    ( /\ seg_last.kind = "classified"
      /\ AllZero(seg_last.audio_data)
      /\ \/ seg_last.voice_activity_threshold >= 0
         \/ seg_last.zero_crossing_rate_threshold >= 0 )
    => ~seg_last.has_voice

\* a step of the recognition worker in which the Recognizer call raised
RecRaiseStep == rec_pc = "body" /\ rec_pc' # "body" /\ rec_last'.kind = "raise"

\* C22: when the Recognizer call raises, the segment is taken off the queue
\* for good, nothing is put on translation_queue or in the log, no pair_id is
\* issued, the last-text state is unchanged, and the worker is back at the
\* head of its loop
C22_RaiseDropsSegment ==
    [][RecRaiseStep =>
         /\ processing_queue' = Tail(processing_queue)
         /\ translation_queue' = translation_queue
         /\ <<log_buffer, log_file>>' = <<log_buffer, log_file>>
         /\ <<last_text, last_text_time, next_pair>>' = <<last_text, last_text_time, next_pair>>
         /\ rec_pc' = "check"
      ]_vars

\* the call raised for a segment after an earlier text had been forwarded,
\* and the next segment is waiting
C22_Witness ==
    /\ rec_last.kind = "raise"
    /\ last_text # ""
    /\ next_pair = 1
    /\ Len(translation_queue) = 1
    /\ Len(log_file \o log_buffer) = 1
    /\ processing_queue # <<>>
    /\ rec_pc = "check"

\* the texts forwarded by the recognition worker, in order: the k-th one got
\* pair_id k
RecognitionLog == log_file \o log_buffer

\* the items on their way through the translation stage, and those delivered
ItemsKnown ==
    translation_queue \o texts_to_translate \o failed_translations \o delivered

-----------------------------------------------------------------------------
(* Properties of the capture thread *)

\* the number of calls of that name, and the positions of the calls
Count(calls, name) == Cardinality({i \in 1..Len(calls) : calls[i].call = name})

Before(calls, first, second) ==
    \A i, j \in 1..Len(calls) :
        (calls[i].call = first /\ calls[j].call = second) => i < j

\* C25: when capture_thread has ended, on any exit path, a PyAudio instance
\* that was created has been terminated exactly once, and a stream that was
\* opened has been stopped exactly once and closed exactly once, both before
\* the terminate call; the thread ends without propagating an exception.
C25_CleanupExactlyOnce ==
    cap_pc = "done" =>
        /\ Made(pa_calls, "PyAudio") => Count(pa_calls, "terminate") = 1
        /\ Made(pa_calls, "open") =>
               /\ Count(pa_calls, "stop_stream") = 1
               /\ Count(pa_calls, "close") = 1
               /\ Before(pa_calls, "stop_stream", "close")
               /\ Before(pa_calls, "stop_stream", "terminate")
               /\ Before(pa_calls, "close", "terminate")

\* what the finally block does do: terminate is called exactly once on a
\* created instance, as the last call; stop_stream is called exactly when
\* is_active returned true, close exactly when neither is_active nor
\* stop_stream raised
CleanupAsCoded ==
    cap_pc = "done" =>
        /\ Count(pa_calls, "terminate") = (IF Made(pa_calls, "PyAudio") THEN 1 ELSE 0)
        /\ Made(pa_calls, "PyAudio") => pa_calls[Len(pa_calls)].call = "terminate"
        /\ Count(pa_calls, "is_active") = (IF Made(pa_calls, "open") THEN 1 ELSE 0)
        /\ Count(pa_calls, "stop_stream") <= 1
        /\ Count(pa_calls, "close") <= 1
        /\ Count(pa_calls, "close") = 1 <=>
               /\ Made(pa_calls, "is_active")
               /\ ~(\E i \in 1..Len(pa_calls) : pa_calls[i] = Call("stop_stream", TRUE))
        /\ Before(pa_calls, "stop_stream", "close")
        /\ Before(pa_calls, "close", "terminate")

\* the claim holds on the exits where the stream was started, is still
\* active and stop_stream returns
StartedAndStopped ==
    (cap_pc = "done" /\ Made(pa_calls, "stop_stream")) => C25_CleanupExactlyOnce

\* the step in which the Recognizer returned a text that is not empty
RecTextStep ==
    /\ rec_pc = "body" /\ rec_pc' # "body"
    /\ processing_queue' # processing_queue
    /\ rec_last'.kind = "text" /\ rec_last'.text # ""

\* what forwarding a text does, and what suppressing it does
TextForwarded ==
    /\ rec_last'.forwarded
    /\ translation_queue' = Append(translation_queue, Item(rec_last'.text, next_pair'))
    /\ (log_file \o log_buffer)' = Append(log_file \o log_buffer, rec_last'.text)
    /\ last_text' = rec_last'.text
    /\ last_text_time' = now

TextSuppressed ==
    /\ ~rec_last'.forwarded
    /\ UNCHANGED <<translation_queue, log_buffer, log_file, last_text, last_text_time>>

\* C34: a recognised text equal to the last emitted text is suppressed (not
\* queued, not logged) while less than 5 seconds have elapsed since that
\* emission, and is forwarded otherwise; so the same text is never forwarded
\* twice in a row within 5 seconds.
C34_DedupWithin5s ==
    [][RecTextStep =>
         IF rec_last'.text = last_text /\ now - last_text_time < DedupWindow
         THEN TextSuppressed
         ELSE TextForwarded]_vars

\* in the code the repeat is forwarded only when more than 5 seconds have
\* elapsed (line 102): at exactly 5 seconds it is still suppressed
DedupAsCoded ==
    [][RecTextStep =>
         IF rec_last'.text = last_text /\ now - last_text_time <= DedupWindow
         THEN TextSuppressed
         ELSE TextForwarded]_vars

\* the texts forwarded so far, in emission order (no consumer takes them off
\* translation_queue in the specifications of the recognition worker alone)
ForwardedTexts == [i \in 1..Len(translation_queue) |-> translation_queue[i].text]

\* C35: the log buffer is written out and emptied as soon as it holds 10
\* entries and when the worker loop exits: between iterations it holds fewer
\* than 10 entries, and once the worker has ended it is empty and the log
\* file holds every forwarded text, in emission order.
C35_LogBufferFlushed ==
    /\ rec_pc = "check" => Len(log_buffer) < LogBufferSize
    /\ rec_pc = "done" => (log_buffer = <<>> /\ log_file = ForwardedTexts)

\* in the code a write that raises IOError leaves the buffer as it is
\* (lines 165-171); no text is lost or reordered between file and buffer
LogKeepsEveryText == log_file \o log_buffer = ForwardedTexts

\* C18: each forwarded text item gets a fresh pair_id, distinct from all
\* earlier ones (every id in use was issued before the next one), and
\* wherever an item is, also when it is delivered after any number of passes
\* through the Failure Queue, it carries the pair_id its source text got at
\* recognition
C18_PairIdKept ==
    /\ Len(RecognitionLog) = next_pair
    /\ \A i \in 1..Len(translation_queue) : translation_queue[i].pair_id = next_pair - Len(translation_queue) + i
    /\ \A i \in 1..Len(ItemsKnown) :
          /\ ItemsKnown[i].pair_id \in 1..next_pair
          /\ ItemsKnown[i].text = RecognitionLog[ItemsKnown[i].pair_id]

\* the first item was delivered after the second one, having been through the
\* Failure Queue, and the two carry different texts
C18_Witness ==
    /\ Len(delivered) >= 2
    /\ delivered[1].pair_id = 2
    /\ delivered[2].pair_id = 1
    /\ delivered[1].text # delivered[2].text

\* a step that forwards a translation downstream, and the item it forwards
DeliverStep == Len(delivered') > Len(delivered)
Forwarded == delivered'[Len(delivered')]

RunStepTaken == <<main_pc, joined>>' # <<main_pc, joined>> /\ main_pc # "init"

WorkerPcs == <<cap_pc, seg_pc, rec_pc, tr_pc>>

\* C20: run() leaves its wait loop only on the stop signal, clearing
\* is_running; it then joins the workers one by one in the order they were
\* started, no step of run() changes what a worker is doing (a worker that has
\* not ended is left running), and run() returns whatever the workers do
C20_RunReturnsAfterStop ==
    /\ [][RunStepTaken =>
            /\ WorkerPcs' = WorkerPcs
            /\ main_pc = "waiting" => (main_pc' = "joining" /\ ~is_running' /\ joined' = 0)
            /\ main_pc = "joining" =>
                  /\ is_running' = is_running
                  /\ \/ joined < Len(Workers) /\ joined' = joined + 1 /\ main_pc' = "joining"
                     \/ joined = Len(Workers) /\ joined' = joined /\ main_pc' = "returned"
            /\ main_pc # "returned"
        ]_vars
    /\ (main_pc = "joining") ~> (main_pc = "returned")

\* run() has returned while the translation worker, which never saw the
\* cleared flag, is still in its loop
C20_Witness ==
    /\ main_pc = "returned"
    /\ ~is_running
    /\ joined = Len(Workers)
    /\ ~WorkerEnded("translation")
    /\ WorkerEnded("capture")

\* run() with its workers, every thread scheduled fairly; nothing is assumed
\* of the clock, of the callback, of Ctrl-C or of the stop handler
SpecStop ==
    /\ FairSpec
    /\ WF_vars(\E timedOut \in BOOLEAN : JoinNext(timedOut))
    /\ WF_vars(RunReturn)

\* C39: whenever the flag of a running system is cleared, by Ctrl-C or by an
\* external controller, run() eventually joins the workers and returns
C39_StopLeadsToReturn ==
    (main_pc \in {"waiting", "joining"} /\ ~is_running) ~> (main_pc = "returned")

\* as coded: the wait loop of run() (lines 86-88) is left by Ctrl-C only
WaitLeftOnlyByInterrupt ==
    [][(main_pc = "waiting" /\ main_pc' # "waiting") => KeyboardInterrupt]_vars

\* a step of check_model_reload
ReloadCheckStep == tr_pc = "reload_check"

\* a periodic reload: check_model_reload replaces the handle
PeriodicReload == tr_pc = "reload_check" /\ tr_last'.kind = "reload_check" /\ tr_last'.reloads = 1

\* C27: a periodic reload happens only when more than reload_interval has
\* elapsed since the most recent load or reload of the handle of any kind,
\* a forced reload included.
C27_ReloadAfterAnyLoad ==
    [][PeriodicReload => now - last_load_time > cfg.reload_interval]_vars

\* in the code only the construction and the periodic reload set
\* last_reload_time; a forced reload leaves it as it is, so the time of the
\* latest load can be later than last_reload_time
TimerKeptByForcedReload ==
    [][/\ PeriodicReload => now - last_reload_time > cfg.reload_interval
       /\ (tr_pc = "translating" /\ handles' # handles) =>
             /\ last_reload_time' = last_reload_time
             /\ handles' # {} => last_load_time' = now]_vars

\* a step of the translation worker that ends an iteration of its loop and
\* starts the next one
IterationEnds == tr_pc \in {"batching", "translating", "reload_check"} /\ tr_pc' = "check"

\* C26: every iteration of the translation worker loop evaluates the reload
\* check, timed-out and failed iterations included: the step that ends an
\* iteration is the call of check_model_reload.
C26_ReloadCheckEveryIteration ==
    [][IterationEnds => (tr_pc = "reload_check" /\ tr_last'.kind = "reload_check")]_vars

\* in the code the iterations that end without the reload check are those
\* whose queue read timed out with no retry pending; an iteration that got
\* a batch, failed or not, ends with the check
ReloadCheckUnlessTimeout ==
    [][IterationEnds =>
          \/ tr_pc = "reload_check" /\ tr_last'.kind = "reload_check"
          \/ /\ tr_pc = "batching" /\ tr_last'.kind = "timeout"
             /\ failed_translations = <<>> /\ translation_queue = <<>>]_vars

\* the pair_ids of the items a sequence holds
PairIds(seq) == { seq[i].pair_id : i \in 1..Len(seq) }

\* the items the worker still accounts for: waiting, in the batch, in the
\* Failure Queue or forwarded
Accounted ==
    PairIds(translation_queue) \cup PairIds(texts_to_translate)
    \cup PairIds(failed_translations) \cup PairIds(delivered)

\* C37: no text item is lost by the translation worker.  At every iteration
\* boundary each item ever put on the input queue is still waiting there, or
\* is in the Failure Queue, or has been forwarded as a valid translation.
C37_NoItemLost ==
    tr_pc = "check" =>
        \A p \in 1..next_pair :
            p \in PairIds(translation_queue) \cup PairIds(failed_translations)
                  \cup PairIds(delivered)

\* in the code an item leaves the accounts only in a step in which the
\* translation call or the forced reload raised: the item that raised in
\* translate_text and the items of the batch after it are dropped
LostOnlyByRaise ==
    [][Accounted \subseteq Accounted'
       \/ tr_last'.kind = "raise"
       \/ load_failures' # load_failures]_vars

\* C38: while the flag stays set and the worker is scheduled fairly, every
\* item put on translation_queue is eventually taken into a batch, even when
\* other items keep failing validation
C38_FreshInputTaken ==
    \A p \in 1..StarveMaxItems :
        (p \in PairIds(translation_queue)) ~> (p \notin PairIds(translation_queue))

\* as coded: the queue is left unread by a batch only when the retries fill
\* the batch (lines 347-376)
QueueSkippedOnlyByFullRetries ==
    [][(tr_pc = "batching" /\ tr_pc' = "translating" /\ translation_queue # <<>>
          /\ translation_queue' = translation_queue)
         => Len(failed_translations) >= cfg.batch_size]_vars

\* as coded: a backend that recovers lets every item be taken
FreshTakenWhenBackendRecovers ==
    \A p \in 1..StarveMaxItems :
        (cfg.backend_recovers /\ p \in PairIds(translation_queue))
           ~> (p \notin PairIds(translation_queue))

\* C11: check_model_reload reloads only if the time since last_reload_time
\* strictly exceeds reload_interval, and then sets the timer to the current
\* time; when the interval has not elapsed it neither loads a model nor
\* changes the timer
C11_ReloadOnlyAfterInterval ==
    [][ReloadCheckStep =>
         LET elapsed == now - last_reload_time
         IN  /\ handles' # handles => elapsed > cfg.reload_interval
             /\ (handles' # handles /\ handles' # {}) => last_reload_time' = now
             /\ elapsed <= cfg.reload_interval =>
                    /\ handles' = handles
                    /\ load_failures' = load_failures
                    /\ last_reload_time' = last_reload_time]_vars

\* a periodic reload has just been done and the timer restarted
C11_Witness ==
    /\ tr_last.kind = "reload_check"
    /\ tr_last.reloads = 1
    /\ handles # {}
    /\ last_reload_time = now
    /\ now > cfg.reload_interval

-----------------------------------------------------------------------------
(* Properties of the forwarding of translations *)

\* the step in which a result was found valid
ValidStep == delivered' # delivered

Occurrences(seq, item) == Cardinality({i \in 1..Len(seq) : seq[i] = item})

\* what the step of a valid result does to the counter, the synthesizer and
\* the UI bridge: a speak call that raised changes nothing for the UI
ValidStepForwards ==
    ValidStep =>
        LET item == tr_last'.item
        IN  /\ consecutive_errors' = 0
            /\ web_sent' = (IF cfg.web_ui THEN Append(web_sent, item) ELSE web_sent)
            /\ speech_queue' = (IF cfg.tts /\ tr_last'.speak = "ok"
                                THEN Append(speech_queue, item) ELSE speech_queue)

\* every valid result of the iterations that have ended is in the log file
\* exactly once
LoggedOnce ==
    tr_pc \in {"reload_check", "check"} =>
        \A i \in 1..Len(delivered) : Occurrences(translated_log, delivered[i]) = 1

\* C29: a valid result resets the consecutive-error counter and is forwarded
\* exactly once to every attached consumer: to the UI bridge and to the
\* synthesizer in the step itself, whether or not the speak call fails, and
\* to the log file by the end of the iteration.
C29_ValidForwardedOnce ==
    /\ [][ValidStepForwards]_vars
    /\ [](cfg.web_ui => web_sent = delivered)
    /\ []LoggedOnce

\* in the code the log lines of a batch are written after the for loop
\* (lines 420-434): they are written when the loop ends normally, and dropped
\* when a later item of the batch raises
ForwardedAsCoded ==
    /\ [][ValidStepForwards]_vars
    /\ [](cfg.web_ui => web_sent = delivered)
    /\ [](\A i \in 1..Len(translated_log) :
            /\ Occurrences(translated_log, translated_log[i]) = 1
            /\ Occurrences(delivered, translated_log[i]) = 1)
    /\ [][(tr_pc = "translating" /\ tr_pc' = "reload_check") =>
            IF tr_last'.kind = "raise" \/ load_failures' # load_failures
            THEN translated_log' = translated_log
            ELSE translated_log' = translated_log \o translated_texts
                                   \o (IF ValidStep THEN <<tr_last'.item>> ELSE <<>>)]_vars

-----------------------------------------------------------------------------
(* Properties of the queue reads *)

\* the three workers of the pipeline: a read that finds nothing times out,
\* and the worker goes back to the test of the flag
WorkerReadsTimeOut ==
    /\ (seg_pc = "body" /\ audio_queue = <<>>) =>
           ENABLED (ProcessTimeout /\ seg_pc' = "check")
    /\ (rec_pc = "body" /\ processing_queue = <<>>) =>
           ENABLED (RecognizeTimeout /\ rec_pc' = "check")
    /\ (tr_pc = "batching" /\ failed_translations = <<>> /\ translation_queue = <<>>) =>
           ENABLED (BuildBatch /\ tr_pc' \in {"check", "done"})

\* C28: no worker waits on a queue without a timeout.  Whenever a stage
\* worker (segmenter, recognition, translation, synthesizer) is at its queue
\* read and the queue is empty, the read can time out: the worker has a step.
C28_ReadsTimeOut ==
    /\ WorkerReadsTimeOut
    /\ (tts_pc = "get" /\ speech_queue = <<>>) => ENABLED (SpeechGet \/ SpeechPlay)

\* the synthesizer worker at an empty queue has no step, whatever the flag
SynthesizerBlocksOnEmpty ==
    (tts_pc = "get" /\ speech_queue = <<>>) => ~ENABLED (SpeechGet \/ SpeechPlay)

-----------------------------------------------------------------------------
(* Properties of the pipeline *)

\* the largest capacity the callback of the model can exceed
QueueCapacity == PipeMaxQueue - 1

\* C6: every inter-stage queue is bounded: in no reachable state does the
\* length of a queue exceed a fixed capacity, whatever the relative speeds of
\* its producer and its consumer
C6_QueuesBounded ==
    /\ Len(audio_queue) <= QueueCapacity
    /\ Len(processing_queue) <= QueueCapacity
    /\ Len(translation_queue) <= QueueCapacity

AllWorkersEnded == \A i \in 1..Len(Workers) : WorkerEnded(Workers[i])

\* C7: once the flag is cleared every stage worker eventually leaves its
\* loop and terminates, nothing else being done to stop it (the external
\* calls in flight return)
C7_WorkersTerminate == ~is_running ~> AllWorkersEnded

\* the flag was cleared from outside, run() is still in its wait loop, and
\* the four workers have ended, leaving a frame unread
C7_Witness ==
    /\ ~is_running
    /\ main_pc = "waiting"
    /\ \A i \in 1..Len(Workers) : WorkerPc(Workers[i]) = "done"
    /\ audio_queue # <<>>

=============================================================================
